---- MODULE Spec2Model ----
(***************************************************************************)
(* Model of arcana's version requirements (arcana/requirement/base.py):    *)
(* the Requirement class (construction, version ordering, best_version,    *)
(* valid_version), the resolution of alternative requirements              *)
(* (best_requirement) and RequirementManager.satisfiable; and of study     *)
(* composition (arcana/study/multi.py, nianalysis/study/base.py):          *)
(* SubStudySpec, the definition of a composite study type by               *)
(* MultiStudyMetaClass, the construction of its instances and the routines *)
(* that forward to sub-studies, the Study constructor and dataset lookup,  *)
(* and set_specs.                                                          *)
(*                                                                         *)
(* The methods are functions of their arguments, so the state is the last  *)
(* call: which method was called, its arguments, its outcome (a returned   *)
(* value or a raised exception) and the arguments as the caller sees them  *)
(* after the call.  Spec makes the calls of the requirements, SpecStudy    *)
(* the calls of study composition, where a class statement is followed by  *)
(* the construction of an instance and by a call of one of its routines,   *)
(* or by an assignment in a dictionary the class statement was given.      *)
(* SpecManager follows one call of satisfiable statement by statement.     *)
(***************************************************************************)
EXTENDS Integers, Sequences, FiniteSets, TLC

VARIABLES
    op,     \* the method called last ("none" before the first call)
    args,   \* its arguments, a record (self included for instance methods)
    ret,    \* its outcome: [exc |-> "none", val |-> value] or a raised exception
    heap    \* the mutable arguments as the caller holds them after the call;
            \* for an instance of a composite, the class statement it came from;
            \* for satisfiable, the statement reached and the calls made

vars == <<op, args, ret, heap>>

(***************************************************************************)
(* Bounds of the model.                                                    *)
(***************************************************************************)
MaxLen == 3      \* longest version tuple passed to the comparisons
MaxCands == 3    \* longest list of candidate version strings
MaxReqs == 2     \* longest list of alternative requirements

(***************************************************************************)
(* Values.  A version part is an int or a str; Python compares them only   *)
(* within one type.  A str part is a one-character string, held as its     *)
(* code point.                                                             *)
(***************************************************************************)
I(n) == [type |-> "int", val |-> n]
S(c) == [type |-> "str", val |-> c]
StrA == S(97)

\* Python's None where a version tuple may stand (max_version).
None == <<[type |-> "NoneType", val |-> 0]>>

\* A returned value and a raised exception.
Return(v) == [exc |-> "none", val |-> v]
Raise(e, msg) == [exc |-> e, val |-> msg]

Max(a, b) == IF a >= b THEN a ELSE b

\* Sequences over S of length at most n.
SeqsUpTo(S_, n) == UNION {[1..k -> S_] : k \in 0..n}

(***************************************************************************)
(* Requirement.later_or_equal_version: the version ordering.               *)
(***************************************************************************)
\* zip_longest's fillvalue: the int 0.
fillvalue == I(0)

\* type(v_part) != type(r_part)
type_mismatch_never(v_part, r_part) == FALSE
type_mismatch(v_part, r_part) == v_part.type # r_part.type

\* The value returned when the loop ends without an unequal pair.
all_parts_equal_false == Return(FALSE)
all_parts_equal == Return(TRUE)

RECURSIVE later_or_equal_loop(_, _, _)
later_or_equal_loop(version, reference, i) ==
    IF i > Max(Len(version), Len(reference))
    THEN all_parts_equal
    ELSE LET v_part == IF i <= Len(version) THEN version[i] ELSE fillvalue
             r_part == IF i <= Len(reference) THEN reference[i] ELSE fillvalue
         IN  IF type_mismatch(v_part, r_part)
             THEN Raise("ArcanaError",
                        [site |-> "type_mismatch", position |-> i])
             ELSE IF v_part.val > r_part.val THEN Return(TRUE)
             ELSE IF v_part.val < r_part.val THEN Return(FALSE)
             ELSE later_or_equal_loop(version, reference, i + 1)

later_or_equal_version(version, reference) ==
    later_or_equal_loop(version, reference, 1)

(***************************************************************************)
(* Version strings are sequences of characters.  The default parser        *)
(* (arcana.requirement.utils.split_version) splits at the dots and reads   *)
(* every piece as a decimal integer; a piece that is empty or holds        *)
(* anything but digits makes the string unparseable.                       *)
(***************************************************************************)
DigitValue(c) ==
    CASE c = "0" -> 0 [] c = "1" -> 1 [] c = "2" -> 2 [] c = "3" -> 3
      [] c = "4" -> 4 [] c = "5" -> 5 [] c = "6" -> 6 [] c = "7" -> 7
      [] c = "8" -> 8 [] c = "9" -> 9 [] OTHER -> -1

\* piece: the integer read so far in the current piece, -1 when it is empty.
RECURSIVE utils_split_version_loop(_, _, _, _)
utils_split_version_loop(version_str, i, piece, parts) ==
    IF i > Len(version_str)
    THEN IF piece < 0
         THEN Raise("ArcanaRequirementVersionException",
                    [site |-> "split_version", version_str |-> version_str])
         ELSE Return(Append(parts, I(piece)))
    ELSE LET c == version_str[i]
         IN  IF DigitValue(c) >= 0
             THEN utils_split_version_loop(
                      version_str, i + 1,
                      (IF piece < 0 THEN 0 ELSE 10 * piece) + DigitValue(c),
                      parts)
             ELSE IF c = "." /\ piece >= 0
             THEN utils_split_version_loop(
                      version_str, i + 1, -1, Append(parts, I(piece)))
             ELSE Raise("ArcanaRequirementVersionException",
                        [site |-> "split_version", version_str |-> version_str])

utils_split_version(version_str) ==
    utils_split_version_loop(version_str, 1, -1, <<>>)

\* Requirement.split_version: tuple(self._version_split(version_str))
split_version(self, version_str) == utils_split_version(version_str)

(***************************************************************************)
(* Requirement.__init__                                                    *)
(***************************************************************************)
\* str.lower() on the names used here.
lower(name) ==
    CASE name = "A" -> "a" [] name = "B" -> "b" [] OTHER -> name

\* name.lower()
stored_name(name) == lower(name)

\* self.later_or_equal_version(self._max_ver, self._min_ver)
range_ok_reversed(min_version, max_version) ==
    later_or_equal_version(min_version, max_version)
range_ok(min_version, max_version) ==
    later_or_equal_version(max_version, min_version)

Requirement__init__(name, min_version, max_version) ==
    IF max_version # None
    THEN LET cmp == range_ok(min_version, max_version)
         IN  IF cmp.exc # "none" THEN cmp
             ELSE IF ~cmp.val
             THEN Raise("ArcanaError",
                        [site |-> "max_less_than_min", position |-> 0])
             ELSE Return([name |-> stored_name(name),
                          min_ver |-> min_version,
                          max_ver |-> max_version])
    ELSE Return([name |-> stored_name(name),
                 min_ver |-> min_version,
                 max_ver |-> None])

(***************************************************************************)
(* Requirement.valid_version                                               *)
(***************************************************************************)
\* self.max_version is None or
\* self.later_or_equal_version(self.max_version, version)
within_max_strict(self, version) ==
    IF self.max_ver = None THEN Return(TRUE)
    ELSE LET cmp == later_or_equal_version(version, self.max_ver)
         IN  IF cmp.exc # "none" THEN cmp ELSE Return(~cmp.val)
within_max(self, version) ==
    IF self.max_ver = None THEN Return(TRUE)
    ELSE later_or_equal_version(self.max_ver, version)

\* The second operand of "and" is evaluated only when the first is true.
valid_version(self, version) ==
    LET low == later_or_equal_version(version, self.min_ver)
    IN  IF low.exc # "none" THEN low
        ELSE IF ~low.val THEN Return(FALSE)
        ELSE within_max(self, version)

(***************************************************************************)
(* Requirement.best_version                                                *)
(***************************************************************************)
\* The condition of best_version on a parsed candidate:
\* later_or_equal_version(v_parts, self._min_ver) and
\* (self._max_ver is None or later_or_equal_version(self._max_ver, v_parts))
candidate_in_range_min_only(self, v_parts) ==
    later_or_equal_version(v_parts, self.min_ver)

candidate_in_range(self, v_parts) ==
    LET low == later_or_equal_version(v_parts, self.min_ver)
    IN  IF low.exc # "none" THEN low
        ELSE IF ~low.val THEN Return(FALSE)
        ELSE IF self.max_ver = None THEN Return(TRUE)
        ELSE later_or_equal_version(self.max_ver, v_parts)

\* best = None
NoBest == [set |-> FALSE, ver |-> <<>>, parts |-> <<>>]

\* best is None or later_or_equal_version(v_parts, best[1])
replaces_best_first_only(v_parts, best) == Return(~best.set)
replaces_best(v_parts, best) ==
    IF ~best.set THEN Return(TRUE)
    ELSE later_or_equal_version(v_parts, best.parts)

\* The message of the exception best_version raises.
best_version_msg(self, available_versions) ==
    [site |-> "best_version", name |-> self.name, min |-> self.min_ver,
     max |-> self.max_ver, available |-> available_versions]

RECURSIVE best_version_loop(_, _, _, _)
best_version_loop(self, available_versions, i, best) ==
    IF i > Len(available_versions)
    THEN IF ~best.set
         THEN Raise("ArcanaRequirementVersionException",
                    best_version_msg(self, available_versions))
         ELSE Return(best.ver)
    ELSE LET ver == available_versions[i]
             split == split_version(self, ver)
         IN  IF split.exc = "ArcanaRequirementVersionException"
             THEN best_version_loop(self, available_versions, i + 1, best)
             ELSE IF split.exc # "none" THEN split
             ELSE LET v_parts == split.val
                      ok == candidate_in_range(self, v_parts)
                  IN  IF ok.exc # "none" THEN ok
                      ELSE IF ~ok.val
                      THEN best_version_loop(
                               self, available_versions, i + 1, best)
                      ELSE LET better == replaces_best(v_parts, best)
                           IN  IF better.exc # "none" THEN better
                               ELSE best_version_loop(
                                        self, available_versions, i + 1,
                                        IF better.val
                                        THEN [set |-> TRUE, ver |-> ver,
                                              parts |-> v_parts]
                                        ELSE best)

best_version(self, available_versions) ==
    best_version_loop(self, available_versions, 1, NoBest)

(***************************************************************************)
(* Requirement.best_requirement                                            *)
(*                                                                         *)
(* possible_requirements is a list of Requirements or a single one:        *)
(*   [kind |-> "list", items |-> <<r1, ...>>], [kind |-> "Requirement",    *)
(*   obj |-> r].  preloaded_modules is a dict or None:                     *)
(*   [kind |-> "dict", map |-> f], [kind |-> "NoneType"].                  *)
(* A dict is a function whose domain is its set of keys.                   *)
(***************************************************************************)
\* if preloaded_modules is None: preloaded_modules = {}
\* (the name is rebound inside the call; the caller's argument is not touched)
local_preloaded(preloaded_modules) ==
    IF preloaded_modules.kind = "NoneType" THEN <<>>
    ELSE preloaded_modules.map

\* if isinstance(possible_requirements, Requirement):
\*     possible_requirements = [possible_requirements]
local_requirements(possible_requirements) ==
    IF possible_requirements.kind = "Requirement"
    THEN <<possible_requirements.obj>>
    ELSE possible_requirements.items

\* An incompatible version is already loaded: raise ArcanaError (not caught
\* by "except KeyError").
incompatible_preloaded_msg(req, version) ==
    [site |-> "incompatible_preloaded", name |-> req.name,
     version |-> version]

\* ' and '.join(str(e) for e in ver_exceptions)
joined(ver_exceptions) ==
    [site |-> "best_requirement", messages |-> ver_exceptions]

RECURSIVE best_requirement_loop(_, _, _, _, _)

\* The branch taken when the preloaded version is not valid.
preloaded_invalid_falls_through(reqs, available, preloaded, i, excs) ==
    best_requirement_loop(reqs, available, preloaded, i + 1, excs)
preloaded_invalid(reqs, available, preloaded, i, excs) ==
    Raise("ArcanaError", incompatible_preloaded_msg(reqs[i], preloaded[reqs[i].name]))

\* The try block: version = preloaded_modules[req.name] found.
preloaded_branch_reselects(reqs, available, preloaded, i, excs) ==
    LET req == reqs[i]
        bv == IF req.name \in DOMAIN available
              THEN best_version(req, available[req.name])
              ELSE Return(preloaded[req.name])
    IN  IF bv.exc = "none" THEN Return([name |-> req.name, version |-> bv.val])
        ELSE Return([name |-> req.name, version |-> preloaded[req.name]])
preloaded_branch(reqs, available, preloaded, i, excs) ==
    LET req == reqs[i]
        version == preloaded[req.name]
        split == split_version(req, version)
    IN  IF split.exc # "none" THEN split
        ELSE LET valid == valid_version(req, split.val)
             IN  IF valid.exc # "none" THEN valid
                 ELSE IF valid.val
                 THEN Return([name |-> req.name, version |-> version])
                 ELSE preloaded_invalid(reqs, available, preloaded, i, excs)

\* The "except KeyError" handler: no preloaded version of req.name.
available_branch(reqs, available, preloaded, i, excs) ==
    LET req == reqs[i]
    IN  IF req.name \notin DOMAIN available
        THEN Raise("KeyError", [site |-> "available_modules", name |-> req.name])
        ELSE LET bv == best_version(req, available[req.name])
             IN  IF bv.exc = "none"
                 THEN Return([name |-> req.name, version |-> bv.val])
                 ELSE IF bv.exc = "ArcanaRequirementVersionException"
                 THEN best_requirement_loop(reqs, available, preloaded, i + 1,
                                            Append(excs, bv.val))
                 ELSE bv

best_requirement_loop(reqs, available, preloaded, i, excs) ==
    IF i > Len(reqs)
    THEN Raise("ArcanaRequirementVersionException", joined(excs))
    ELSE IF reqs[i].name \in DOMAIN preloaded
    THEN preloaded_branch(reqs, available, preloaded, i, excs)
    ELSE available_branch(reqs, available, preloaded, i, excs)

best_requirement(possible_requirements, available_modules, preloaded_modules) ==
    best_requirement_loop(local_requirements(possible_requirements),
                          available_modules,
                          local_preloaded(preloaded_modules), 1, <<>>)

\* The three arguments as the caller holds them when best_requirement is
\* left: its body assigns to two of the names and mutates no object.
arguments_after_defaulted(possible_requirements, available_modules, preloaded_modules) ==
    [possible_requirements |->
         [kind |-> "list",
          items |-> local_requirements(possible_requirements)],
     available_modules |-> available_modules,
     preloaded_modules |->
         [kind |-> "dict", map |-> local_preloaded(preloaded_modules)]]
arguments_after(possible_requirements, available_modules, preloaded_modules) ==
    [possible_requirements |-> possible_requirements,
     available_modules |-> available_modules,
     preloaded_modules |-> preloaded_modules]

(***************************************************************************)
(* The inputs of the calls.                                                *)
(***************************************************************************)
\* Version strings: "0.9", "1.0", "1.2", "1.5", "2", "2.0", "2.1", "2.5", "abc".
V0_9 == <<"0", ".", "9">>
V1_0 == <<"1", ".", "0">>
V1_2 == <<"1", ".", "2">>
V1_5 == <<"1", ".", "5">>
V2 == <<"2">>
V2_0 == <<"2", ".", "0">>
V2_1 == <<"2", ".", "1">>
V2_5 == <<"2", ".", "5">>
Vabc == <<"a", "b", "c">>

\* The candidates of best_version.
VersionStrings == {V0_9, V1_0, V1_5, V2, V2_0, V2_1, Vabc}

\* The arguments of the constructor.
RawNames == {"A", "b"}
MinVersions == {<<I(1), I(0)>>, <<I(2), I(0)>>, <<I(2)>>, <<I(1), StrA>>}
MaxVersions == {None, <<I(2), I(0)>>, <<I(1)>>, <<I(1), I(0), I(0)>>}

\* The Requirement objects: what the constructor returns on these arguments.
Requirements ==
    {Requirement__init__(n, lo, hi).val :
        <<n, lo, hi>> \in {x \in RawNames \X MinVersions \X MaxVersions :
                              Requirement__init__(x[1], x[2], x[3]).exc = "none"}}

\* The version tuples passed to later_or_equal_version and to valid_version.
CmpTuples == SeqsUpTo({I(0), I(1), StrA}, MaxLen)
VerTuples == SeqsUpTo({I(0), I(1), I(2), StrA}, MaxLen)

\* The alternatives of best_requirement, of both dependencies: >= 1.0,
\* >= 2.0, and 1.0 to 2.0.
ResolverRequirements ==
    {r \in Requirements :
        \/ r.min_ver \in {<<I(1), I(0)>>, <<I(2), I(0)>>} /\ r.max_ver = None
        \/ r.min_ver = <<I(1), I(0)>> /\ r.max_ver = <<I(2), I(0)>>}

PossibleRequirements ==
    {[kind |-> "list", items |-> l] : l \in SeqsUpTo(ResolverRequirements, MaxReqs)}
    \cup {[kind |-> "Requirement", obj |-> r] : r \in ResolverRequirements}

\* available_modules: the versions available of each dependency that has any.
StoredNames == {"a", "b"}
AvailableLists == {<<>>, <<V1_5>>, <<V0_9, Vabc, V2_1>>}
AvailableMaps == UNION {[D -> AvailableLists] : D \in SUBSET StoredNames}

\* preloaded_modules: the version loaded of each dependency that has one.
PreloadedVersions == {V1_2, V2_5, Vabc}
PreloadedMaps == UNION {[D -> PreloadedVersions] : D \in SUBSET StoredNames}
PreloadedArguments ==
    {[kind |-> "dict", map |-> m] : m \in PreloadedMaps}
    \cup {[kind |-> "NoneType"]}

(***************************************************************************)
(* The calls.  A call is made by a caller that has no call in progress and *)
(* the state it leaves is the record of that call.                         *)
(***************************************************************************)
Init ==
    /\ op = "none"
    /\ args = <<>>
    /\ ret = Return(<<>>)
    /\ heap = <<>>

\* Requirement(name, min_version, max_version)
New ==
    /\ op = "none"
    /\ \E name \in RawNames, min_version \in MinVersions,
       max_version \in MaxVersions :
        /\ op' = "__init__"
        /\ args' = [name |-> name, min_version |-> min_version,
                    max_version |-> max_version]
        /\ ret' = Requirement__init__(name, min_version, max_version)
        /\ heap' = <<>>

\* Requirement.later_or_equal_version(version, reference)
LaterOrEqualVersion ==
    /\ op = "none"
    /\ \E version \in CmpTuples, reference \in CmpTuples :
        /\ op' = "later_or_equal_version"
        /\ args' = [version |-> version, reference |-> reference]
        /\ ret' = later_or_equal_version(version, reference)
        /\ heap' = <<>>

\* self.split_version(version_str)
SplitVersion ==
    /\ op = "none"
    /\ \E self \in Requirements, version_str \in VersionStrings :
        /\ op' = "split_version"
        /\ args' = [self |-> self, version_str |-> version_str]
        /\ ret' = split_version(self, version_str)
        /\ heap' = <<>>

\* self.valid_version(version)
ValidVersion ==
    /\ op = "none"
    /\ \E self \in Requirements, version \in VerTuples :
        /\ op' = "valid_version"
        /\ args' = [self |-> self, version |-> version]
        /\ ret' = valid_version(self, version)
        /\ heap' = <<>>

\* self.best_version(available_versions)
BestVersion ==
    /\ op = "none"
    /\ \E self \in Requirements,
       available_versions \in SeqsUpTo(VersionStrings, MaxCands) :
        /\ op' = "best_version"
        /\ args' = [self |-> self, available_versions |-> available_versions]
        /\ ret' = best_version(self, available_versions)
        /\ heap' = <<>>

\* Requirement.best_requirement(possible_requirements, available_modules,
\*                              preloaded_modules)
BestRequirement ==
    /\ op = "none"
    /\ \E possible_requirements \in PossibleRequirements,
       available_modules \in AvailableMaps,
       preloaded_modules \in PreloadedArguments :
        /\ op' = "best_requirement"
        /\ args' = [possible_requirements |-> possible_requirements,
                    available_modules |-> available_modules,
                    preloaded_modules |-> preloaded_modules]
        /\ ret' = best_requirement(possible_requirements, available_modules,
                                   preloaded_modules)
        /\ heap' = arguments_after(possible_requirements, available_modules,
                                   preloaded_modules)

Next ==
    \/ New
    \/ LaterOrEqualVersion
    \/ SplitVersion
    \/ ValidVersion
    \/ BestVersion
    \/ BestRequirement

Spec == Init /\ [][Next]_vars

(***************************************************************************)
(* The version ordering as the specification states it: pad the shorter    *)
(* tuple with zeros on the right; the first position where the two differ  *)
(* decides; if its two parts are of different types the versions cannot be *)
(* compared.                                                               *)
(***************************************************************************)
Padded(t, i) == IF i <= Len(t) THEN t[i] ELSE [type |-> "int", val |-> 0]

Differing(a, b) ==
    {i \in 1..Max(Len(a), Len(b)) : Padded(a, i) # Padded(b, i)}

\* "ge", "lt" or "mismatch"
Ordering(a, b) ==
    IF Differing(a, b) = {} THEN "ge"
    ELSE LET k == CHOOSE i \in Differing(a, b) :
                      \A j \in Differing(a, b) : i <= j
         IN  IF Padded(a, k).type # Padded(b, k).type THEN "mismatch"
             ELSE IF Padded(a, k).val > Padded(b, k).val THEN "ge"
             ELSE "lt"

IsIntTuple(t) == \A i \in 1..Len(t) : t[i].type = "int"

IsIntRequirement(r) ==
    IsIntTuple(r.min_ver) /\ (r.max_ver = None \/ IsIntTuple(r.max_ver))

\* Some position holds parts of different types.
MismatchSomewhere(a, b) ==
    \E i \in 1..Max(Len(a), Len(b)) : Padded(a, i).type # Padded(b, i).type

\* t lies in the range of r, both bounds included.
Compatible(r, t) ==
    /\ Ordering(t, r.min_ver) = "ge"
    /\ r.max_ver = None \/ Ordering(r.max_ver, t) = "ge"

\* The candidates of L (by position) that parse to a version in r's range.
CompatibleCandidates(r, L) ==
    {i \in 1..Len(L) :
        /\ split_version(r, L[i]).exc = "none"
        /\ Compatible(r, split_version(r, L[i]).val)}

(***************************************************************************)
(* C1: best_version returns a member of the candidate list that parses to  *)
(* a version in the requirement's range and is later than or equal to      *)
(* every other such candidate; unparseable candidates are skipped; it      *)
(* raises the no-compatible-version exception (carrying the candidate      *)
(* list) exactly when no candidate parses to a version in the range.       *)
(* Stated for requirements whose bounds are integer tuples, where the      *)
(* ordering is defined on every pair compared.                             *)
(***************************************************************************)
C1_BestVersion ==
    (op = "best_version" /\ IsIntRequirement(args.self)) =>
        LET r == args.self
            L == args.available_versions
            T(i) == split_version(r, L[i]).val
        IN  IF CompatibleCandidates(r, L) = {}
            THEN /\ ret.exc = "ArcanaRequirementVersionException"
                 /\ ret.val.site = "best_version"
                 /\ ret.val.available = L
            ELSE /\ ret.exc = "none"
                 /\ \E i \in CompatibleCandidates(r, L) :
                        /\ L[i] = ret.val
                        /\ \A j \in CompatibleCandidates(r, L) :
                               Ordering(T(i), T(j)) = "ge"

\* An unparseable candidate, then the best one, then a lesser compatible one.
C1_Witness ==
    /\ op = "best_version"
    /\ args.self.min_ver = <<I(1), I(0)>>
    /\ args.self.max_ver = <<I(2), I(0)>>
    /\ args.available_versions = <<Vabc, V2_0, V1_5>>
    /\ ret = Return(V2_0)

(***************************************************************************)
(* C2: valid_version(v) is true iff v >= min_version and (max_version is   *)
(* None or max_version >= v); both bounds are inclusive.  On integer       *)
(* tuples it always returns.                                               *)
(***************************************************************************)
C2_ValidVersion ==
    op = "valid_version" =>
        /\ (IsIntRequirement(args.self) /\ IsIntTuple(args.version))
               => ret.exc = "none"
        /\ ret.exc = "none" => ret.val = Compatible(args.self, args.version)

\* v equals max_version (after padding) and is valid.
C2_Witness ==
    /\ op = "valid_version"
    /\ args.self.min_ver = <<I(1), I(0)>>
    /\ args.self.max_ver = <<I(2), I(0)>>
    /\ args.version = <<I(2)>>
    /\ ret = Return(TRUE)

(***************************************************************************)
(* C3: on integer tuples later_or_equal_version(a, b) is the lexicographic *)
(* a >= b of the zero-padded tuples; tuples equal after padding are each   *)
(* >= the other; the relation is total and transitive.                     *)
(***************************************************************************)
C3_PaddedLexicographic ==
    (/\ op = "later_or_equal_version"
     /\ IsIntTuple(args.version)
     /\ IsIntTuple(args.reference)) =>
        LET a == args.version
            b == args.reference
            GE(x, y) == later_or_equal_version(x, y) = Return(TRUE)
        IN  /\ ret.exc = "none"
            /\ ret.val = (Ordering(a, b) = "ge")
            /\ Differing(a, b) = {} => (ret.val /\ GE(b, a))
            /\ ret.val \/ GE(b, a)
            /\ \A c \in {t \in CmpTuples : IsIntTuple(t)} :
                   (ret.val /\ GE(b, c)) => GE(a, c)

\* (1, 0) against (1, 0, 0): equal after padding.
C3_Witness ==
    /\ op = "later_or_equal_version"
    /\ args.version = <<I(1), I(0)>>
    /\ args.reference = <<I(1), I(0), I(0)>>
    /\ ret = Return(TRUE)

(***************************************************************************)
(* C4 as stated: two tuples with parts of different types at some position *)
(* make later_or_equal_version raise, whatever the earlier positions hold. *)
(***************************************************************************)
C4_MismatchAnywhereRaises ==
    (/\ op = "later_or_equal_version"
     /\ MismatchSomewhere(args.version, args.reference)) =>
        ret.exc = "ArcanaError"

\* A candidate of best_version whose comparison against the range raises.
CandidateMismatch(r, t) ==
    \/ Ordering(t, r.min_ver) = "mismatch"
    \/ /\ Ordering(t, r.min_ver) = "ge"
       /\ r.max_ver # None
       /\ Ordering(r.max_ver, t) = "mismatch"

(***************************************************************************)
(* C4 amended: later_or_equal_version raises the type-mismatch error       *)
(* exactly when the first position at which the zero-padded tuples differ  *)
(* holds parts of different types, in either argument order; a mismatch    *)
(* behind a position that already decides is not detected.  best_version   *)
(* raises the same error, instead of skipping the candidate, exactly when  *)
(* some parseable candidate's comparison against the range raises it.      *)
(***************************************************************************)
C4_FirstDifferenceMismatchRaises ==
    /\ op = "later_or_equal_version" =>
           LET a == args.version
               b == args.reference
               raised(x) == x.exc = "ArcanaError" /\ x.val.site = "type_mismatch"
           IN  /\ raised(ret) <=> Ordering(a, b) = "mismatch"
               /\ raised(ret) <=> raised(later_or_equal_version(b, a))
               /\ ret.exc \in {"none", "ArcanaError"}
    /\ op = "best_version" =>
           LET r == args.self
               L == args.available_versions
           IN  (ret.exc = "ArcanaError" /\ ret.val.site = "type_mismatch")
               <=> \E i \in 1..Len(L) :
                      /\ split_version(r, L[i]).exc = "none"
                      /\ CandidateMismatch(r, split_version(r, L[i]).val)

\* (0, 1, "a") against (0, 1): the mismatch is met against the padding after
\* two equal positions.
C4_Witness ==
    /\ op = "later_or_equal_version"
    /\ args.version = <<I(0), I(1), StrA>>
    /\ args.reference = <<I(0), I(1)>>
    /\ ret.exc = "ArcanaError"

(***************************************************************************)
(* C5: construction with a max_version fails on range grounds iff          *)
(* max_version is strictly less than min_version; a max_version equal to   *)
(* min_version, also after zero-padding, is accepted; without max_version  *)
(* construction succeeds; the name is stored lower-cased.  (The only other *)
(* failure is the type-mismatch error of the comparison itself.)           *)
(***************************************************************************)
C5_Construction ==
    op = "__init__" =>
        LET lo == args.min_version
            hi == args.max_version
        IN  /\ hi = None => ret.exc = "none"
            /\ hi # None =>
                   /\ (ret.exc = "ArcanaError"
                          /\ ret.val.site = "max_less_than_min")
                      <=> Ordering(hi, lo) = "lt"
                   /\ ret.exc = "none" <=> Ordering(hi, lo) = "ge"
            /\ ret.exc = "none" =>
                   /\ ret.val.name = (IF args.name = "A" THEN "a" ELSE "b")
                   /\ ret.val.min_ver = lo
                   /\ ret.val.max_ver = hi

\* max (1) equals min (1, 0) after padding: accepted, "A" stored as "a".
C5_Witness ==
    /\ op = "__init__"
    /\ args.name = "A"
    /\ args.min_version = <<I(1), I(0)>>
    /\ args.max_version = <<I(1)>>
    /\ ret.exc = "none"
    /\ ret.val.name = "a"

(***************************************************************************)
(* The terms of the claims about best_requirement.                         *)
(***************************************************************************)
\* The alternatives in declared order; a single Requirement counts as a
\* one-element list.
Alternatives ==
    IF args.possible_requirements.kind = "Requirement"
    THEN <<args.possible_requirements.obj>>
    ELSE args.possible_requirements.items

\* The active (preloaded) map; none given counts as empty.
Active ==
    IF args.preloaded_modules.kind = "NoneType" THEN <<>>
    ELSE args.preloaded_modules.map

Available == args.available_modules

HasActive(r) == r.name \in DOMAIN Active

ActiveParses(r) ==
    HasActive(r) /\ split_version(r, Active[r.name]).exc = "none"

ActiveCompatible(r) ==
    ActiveParses(r) /\ Compatible(r, split_version(r, Active[r.name]).val)

ActiveIncompatible(r) ==
    ActiveParses(r) /\ ~Compatible(r, split_version(r, Active[r.name]).val)

\* available[name] holds a version in r's range.
AvailableCompatible(r) ==
    /\ r.name \in DOMAIN Available
    /\ CompatibleCandidates(r, Available[r.name]) # {}

\* No active entry and no compatible available version: the dependency has
\* an empty list, a list without a compatible version, or no entry at all.
Unsatisfiable(r) == ~HasActive(r) /\ ~AvailableCompatible(r)

\* Alternative i is examined: every earlier alternative had no active entry
\* and a list in available without a compatible version.
Examined(i) ==
    \A j \in 1..(i - 1) :
        /\ ~HasActive(Alternatives[j])
        /\ Alternatives[j].name \in DOMAIN Available
        /\ ~AvailableCompatible(Alternatives[j])

\* The available maps that agree with Available except, possibly, on name.
AvailableVariants(name) ==
    {m \in AvailableMaps :
        \A n \in StoredNames \ {name} :
            /\ n \in DOMAIN m <=> n \in DOMAIN Available
            /\ n \in DOMAIN m => m[n] = Available[n]}

(***************************************************************************)
(* C6: when the alternative being examined has an entry in the active map  *)
(* under its lower-cased name and that version is compatible, the result   *)
(* is (lower-cased name, the active version string verbatim), and it is    *)
(* the same whatever available holds for that name: no entry, an empty     *)
(* list or a greater compatible version.                                   *)
(***************************************************************************)
C6_ActiveCompatibleReturned ==
    op = "best_requirement" =>
        \A i \in 1..Len(Alternatives) :
            LET r == Alternatives[i]
            IN  (Examined(i) /\ ActiveCompatible(r)) =>
                    /\ r.name \in StoredNames
                    /\ ret = Return([name |-> r.name,
                                     version |-> Active[r.name]])
                    /\ \A m \in AvailableVariants(r.name) :
                           best_requirement(args.possible_requirements, m,
                                            args.preloaded_modules) = ret

\* The second alternative is the active one ("1.2" of a) although "1.5" is
\* available; the first (b >= 2.0) found nothing in ["1.5"].
C6_Witness ==
    /\ op = "best_requirement"
    /\ Len(Alternatives) = 2
    /\ Alternatives[1].name = "b"
    /\ Alternatives[2].name = "a"
    /\ Alternatives[2].min_ver = <<I(1), I(0)>>
    /\ Examined(2)
    /\ HasActive(Alternatives[2])
    /\ Active["a"] = V1_2
    /\ "a" \in DOMAIN Available
    /\ Available["a"] = <<V1_5>>
    /\ ret = Return([name |-> "a", version |-> V1_2])

(***************************************************************************)
(* C7: when the alternative being examined has an active version outside   *)
(* its range, the resolution raises the active-version-conflict error,     *)
(* whatever the later alternatives and the available map hold; it returns  *)
(* nothing and the error is not the aggregated no-compatible-version one.  *)
(***************************************************************************)
C7_ActiveIncompatibleRaises ==
    op = "best_requirement" =>
        \A i \in 1..Len(Alternatives) :
            LET r == Alternatives[i]
            IN  (Examined(i) /\ ActiveIncompatible(r)) =>
                    /\ ret.exc = "ArcanaError"
                    /\ ret.val.site = "incompatible_preloaded"
                    /\ ret.val.name = r.name
                    /\ ret.val.version = Active[r.name]

\* a >= 2.0 with "1.2" active, although "2.1" of a is available and the
\* second alternative is satisfiable from available.
C7_Witness ==
    /\ op = "best_requirement"
    /\ Len(Alternatives) = 2
    /\ Alternatives[1].name = "a"
    /\ Alternatives[1].min_ver = <<I(2), I(0)>>
    /\ Alternatives[1].max_ver = None
    /\ HasActive(Alternatives[1])
    /\ Active["a"] = V1_2
    /\ AvailableCompatible(Alternatives[1])
    /\ ~HasActive(Alternatives[2])
    /\ AvailableCompatible(Alternatives[2])
    /\ ret.exc = "ArcanaError"

(***************************************************************************)
(* C8: the alternatives are examined in declared order and the result is   *)
(* that of the first alternative i that is active-and-compatible or has a  *)
(* compatible version in available[name], provided every earlier           *)
(* alternative had no active entry and no compatible available version;    *)
(* for a non-active alternative the version is best_version of             *)
(* available[name].                                                        *)
(***************************************************************************)
C8_FirstSatisfiableReturned ==
    op = "best_requirement" =>
        \A i \in 1..Len(Alternatives) :
            LET r == Alternatives[i]
            IN  (/\ \A j \in 1..(i - 1) : Unsatisfiable(Alternatives[j])
                 /\ \/ ActiveCompatible(r)
                    \/ ~HasActive(r) /\ AvailableCompatible(r)) =>
                    /\ ret.exc = "none"
                    /\ ret.val.name = r.name
                    /\ HasActive(r) => ret.val.version = Active[r.name]
                    /\ ~HasActive(r) =>
                           Return(ret.val.version)
                               = best_version(r, Available[r.name])

(***************************************************************************)
(* C9: when no alternative has an active entry and none has a compatible   *)
(* version in available (an empty list or no entry at all included, and    *)
(* the empty alternatives list included), best_requirement raises the      *)
(* aggregated no-compatible-version error, whose message joins one         *)
(* recorded message per alternative in declared order.                     *)
(***************************************************************************)
C9_AllUnsatisfiableAggregated ==
    (/\ op = "best_requirement"
     /\ \A i \in 1..Len(Alternatives) : Unsatisfiable(Alternatives[i])) =>
        /\ ret.exc = "ArcanaRequirementVersionException"
        /\ ret.val.site = "best_requirement"
        /\ Len(ret.val.messages) = Len(Alternatives)
        /\ \A i \in 1..Len(Alternatives) :
               /\ ret.val.messages[i].site = "best_version"
               /\ ret.val.messages[i].name = Alternatives[i].name
               /\ ret.val.messages[i].min = Alternatives[i].min_ver
               /\ ret.val.messages[i].max = Alternatives[i].max_ver

satisfied(r) ==
    IF r.kind # "CLIRequirement" THEN Raise("AttributeError", "satisfied")
    ELSE IF r.test_cmd = None THEN Return(TRUE)
    ELSE Return(r.status = 127)

\* [r for r in requirements if not r.satisfied], line 292.
not_satisfied(requirements) ==
    IF \E i \in 1..Len(requirements) :
           satisfied(requirements[i]).exc # "none"
    THEN Raise("AttributeError", "satisfied")
    ELSE Return(SelectSeq(requirements,
                          LAMBDA r : ~satisfied(r).val))

\* load and unload of the manager, lines 299-319: the call is all there is
\* to see of them in the basic case.
load(calls, requirements) ==
    Append(calls, [method |-> "load", requirements |-> requirements])

unload(calls, requirements) ==
    Append(calls, [method |-> "unload", requirements |-> requirements])

\* A test command, as the string of its characters.
TestCmd == <<"c", "m", "d">>

\* The requirements handed to satisfiable.
ManagedRequirements ==
    {[kind |-> "CLIRequirement", name |-> "a", test_cmd |-> None,
      status |-> 0],
     [kind |-> "CLIRequirement", name |-> "a", test_cmd |-> TestCmd,
      status |-> 0],
     [kind |-> "CLIRequirement", name |-> "a", test_cmd |-> TestCmd,
      status |-> 127],
     [kind |-> "CLIRequirement", name |-> "b", test_cmd |-> TestCmd,
      status |-> 127],
     [kind |-> "CLIRequirement", name |-> "b", test_cmd |-> TestCmd,
      status |-> 1],
     [kind |-> "Requirement", name |-> "b", test_cmd |-> None,
      status |-> 0]}

\* satisfiable(*requirements) is entered.
Satisfiable ==
    /\ op = "none"
    /\ \E requirements \in SeqsUpTo(ManagedRequirements, MaxReqs) :
        /\ op' = "satisfiable"
        /\ args' = [requirements |-> requirements]
        /\ ret' = Return(<<>>)
        /\ heap' = [pc |-> "load", calls |-> <<>>]

\* Line 291: self.load(*requirements, **kwargs)
Load ==
    /\ op = "satisfiable"
    /\ heap.pc = "load"
    /\ heap' = [pc |-> "test", calls |-> load(heap.calls, args.requirements)]
    /\ UNCHANGED <<op, args, ret>>

\* Lines 292-296: the requirements are tested, and the call is left by the
\* exception when one of them is not satisfied.
Test ==
    /\ op = "satisfiable"
    /\ heap.pc = "test"
    /\ LET failed == not_satisfied(args.requirements)
       IN  IF failed.exc # "none"
           THEN ret' = failed /\ heap' = [heap EXCEPT !.pc = "left"]
           ELSE IF failed.val # <<>>
           THEN /\ ret' = Raise("ArcanaRequirementNotSatisfiedError",
                                failed.val)
                /\ heap' = [heap EXCEPT !.pc = "left"]
           ELSE ret' = ret /\ heap' = [heap EXCEPT !.pc = "unload"]
    /\ UNCHANGED <<op, args>>

\* Line 297: self.unload(*requirements, **kwargs), and the call returns.
Unload ==
    /\ op = "satisfiable"
    /\ heap.pc = "unload"
    /\ heap' = [pc |-> "left",
                calls |-> unload(heap.calls, args.requirements)]
    /\ ret' = Return(None)
    /\ UNCHANGED <<op, args>>

NextManager ==
    \/ Satisfiable
    \/ Load
    \/ Test
    \/ Unload

SpecManager == Init /\ [][NextManager]_vars

(***************************************************************************)
(* Study composition (arcana/study/multi.py).                              *)
(*                                                                         *)
(* A specification is a record: name, kind ("data" or "param"), derived,   *)
(* pipeline_getter (the name of the routine that derives it, "" when it is *)
(* acquired) and default (parameters only).  A study class is a record:    *)
(* name, multi (a subclass of MultiStudy), _data_specs and _param_specs    *)
(* (dictionaries, as functions from names), _sub_study_specs (a dictionary *)
(* in insertion order, as the sequence of its values), metaclass and attrs *)
(* (the routines found by getattr, as a function from their names).  A     *)
(* class body is a dictionary with the keys add_data_specs,                *)
(* add_param_specs, add_sub_study_specs and methods (the routines it       *)
(* defines).                                                               *)
(***************************************************************************)
DataSpec(name) ==
    [name |-> name, kind |-> "data", derived |-> FALSE,
     pipeline_getter |-> "", default |-> 0]

DerivedSpec(name, pipeline_getter) ==
    [name |-> name, kind |-> "data", derived |-> TRUE,
     pipeline_getter |-> pipeline_getter, default |-> 0]

ParameterSpec(name, default) ==
    [name |-> name, kind |-> "param", derived |-> FALSE,
     pipeline_getter |-> "", default |-> default]

\* A routine written in a class body, and the dictionary of such routines.
own_method(name) ==
    [auto_added |-> FALSE, sub_study_name |-> "", pipeline_getter |-> name]

own_methods(names) == [n \in names |-> own_method(n)]

\* dict(pairs) for a list of specs keyed by name: a later one replaces an
\* earlier one of the same name.
RECURSIVE by_name(_)
by_name(specs) ==
    IF specs = <<>> THEN <<>>
    ELSE LET last == specs[Len(specs)]
         IN  (last.name :> last) @@ by_name(SubSeq(specs, 1, Len(specs) - 1))

\* dct[key], or the default when the class body does not define the key.
dct_get(dct, key, default) ==
    IF key \in DOMAIN dct THEN dct[key] ELSE default

\* Two entries of one list carry the same name.
duplicate_names(specs) ==
    \E i, j \in 1..Len(specs) : i < j /\ specs[i].name = specs[j].name

\* What a class inherits from its bases: the bases are applied in reverse,
\* so that the base listed first wins.
RECURSIVE inherited(_, _)
inherited(bases, field) ==
    IF bases = <<>> THEN <<>>
    ELSE bases[1][field] @@ inherited(Tail(bases), field)

\* StudyMetaClass(name, bases, dct): the registry of a study type is the
\* inherited specifications overridden by the local ones; two local
\* declarations of one name are rejected.
StudyMetaClass(name, bases, dct) ==
    LET add_data_specs == dct_get(dct, "add_data_specs", <<>>)
        add_param_specs == dct_get(dct, "add_param_specs", <<>>)
    IN  IF duplicate_names(add_data_specs \o add_param_specs)
        THEN Raise("DuplicateSpecificationError", name)
        ELSE Return(
            [name |-> name,
             multi |-> \E i \in 1..Len(bases) : bases[i].multi,
             _data_specs |-> by_name(add_data_specs)
                                 @@ inherited(bases, "_data_specs"),
             _param_specs |-> by_name(add_param_specs)
                                  @@ inherited(bases, "_param_specs"),
             _sub_study_specs |-> dct_get(dct, "_sub_study_specs", <<>>),
             metaclass |-> dct_get(dct, "__metaclass__", "StudyMetaClass"),
             attrs |-> dct_get(dct, "methods", <<>>)
                           @@ inherited(bases, "attrs")])

\* Study.data_specs(), parameter_specs() and the name listings.
data_specs(cls) == {cls._data_specs[n] : n \in DOMAIN cls._data_specs}

parameter_specs(cls) == {cls._param_specs[n] : n \in DOMAIN cls._param_specs}

data_spec_names(cls) == DOMAIN cls._data_specs

parameter_spec_names(cls) == DOMAIN cls._param_specs

spec_names(cls) == data_spec_names(cls) \cup parameter_spec_names(cls)

(***************************************************************************)
(* SubStudySpec: a record name, study_class, _name_map.  The name_map      *)
(* argument is a dict or None: [kind |-> "dict", map |-> f],               *)
(* [kind |-> "NoneType"].                                                  *)
(***************************************************************************)
Dict(f) == [kind |-> "dict", map |-> f]

NoneArgument == [kind |-> "NoneType"]

SubStudySpec(name, study_class, name_map) ==
    [name |-> name, study_class |-> study_class,
     _name_map |-> IF name_map.kind # "NoneType" THEN name_map.map
                   ELSE <<>>]

apply_prefix(self, name) == self.name \o "_" \o name

auto_data_specs(self) ==
    {spec \in data_specs(self.study_class) :
        spec.name \notin DOMAIN self._name_map}

auto_param_specs(self) ==
    {spec \in parameter_specs(self.study_class) :
        spec.name \notin DOMAIN self._name_map}

name_map_auto_only(self) ==
    [n \in {s.name : s \in auto_data_specs(self)} |-> apply_prefix(self, n)]

name_map(self) ==
    LET nmap == [n \in {s.name : s \in auto_data_specs(self)} |->
                    apply_prefix(self, n)]
    IN  self._name_map @@ nmap

map_unchecked(self, name) ==
    IF name \in DOMAIN self._name_map
    THEN Return(self._name_map[name])
    ELSE Return(apply_prefix(self, name))

map(self, name) ==
    IF name \in DOMAIN self._name_map
    THEN Return(self._name_map[name])
    ELSE IF name \notin spec_names(self.study_class)
         THEN Raise("ArcanaNameError", name)
         ELSE Return(apply_prefix(self, name))

(***************************************************************************)
(* MultiStudyMetaClass.__new__: the definition of a composite study type.  *)
(***************************************************************************)
\* The two base classes a class body can name.
Study ==
    [name |-> "Study", multi |-> FALSE, _data_specs |-> <<>>,
     _param_specs |-> <<>>, _sub_study_specs |-> <<>>,
     metaclass |-> "StudyMetaClass", attrs |-> <<>>]

MultiStudy ==
    [name |-> "MultiStudy", multi |-> TRUE, _data_specs |-> <<>>,
     _param_specs |-> <<>>, _sub_study_specs |-> <<>>,
     metaclass |-> "MultiStudyMetaClass", attrs |-> <<>>]

\* sub_study_specs.update((s.name, s) for s in items) on a dictionary kept
\* in insertion order: an item whose name is present replaces the value in
\* place, any other item is added at the end.
RECURSIVE update_sub_study_specs(_, _)
update_sub_study_specs(sub_study_specs, items) ==
    IF items = <<>> THEN sub_study_specs
    ELSE LET s == items[1]
             present == \E i \in 1..Len(sub_study_specs) :
                            sub_study_specs[i].name = s.name
             updated ==
                 IF present
                 THEN [i \in 1..Len(sub_study_specs) |->
                          IF sub_study_specs[i].name = s.name
                          THEN s ELSE sub_study_specs[i]]
                 ELSE Append(sub_study_specs, s)
         IN  update_sub_study_specs(updated, Tail(items))

\* for base in reversed(bases): update with base.sub_study_specs(); a base
\* that is no MultiStudy has no such attribute and is passed over.
RECURSIVE base_sub_study_specs(_, _)
base_sub_study_specs(bases, i) ==
    IF i > Len(bases) THEN <<>>
    ELSE LET earlier == base_sub_study_specs(bases, i + 1)
         IN  IF bases[i].multi
             THEN update_sub_study_specs(earlier, bases[i]._sub_study_specs)
             ELSE earlier

\* Lines 296-308: the bindings of the new type.
gather_bases_last(bases, add_sub_study_specs) ==
    update_sub_study_specs(add_sub_study_specs,
                           base_sub_study_specs(bases, 1))

gather(bases, add_sub_study_specs) ==
    update_sub_study_specs(base_sub_study_specs(bases, 1),
                           add_sub_study_specs)

\* MultiStudy.translate(sub_study_name, pipeline_getter, auto_added): the
\* routine it returns, by what it will call.
translate(sub_study_name, pipeline_getter, auto_added) ==
    [auto_added |-> auto_added, sub_study_name |-> sub_study_name,
     pipeline_getter |-> pipeline_getter]

\* Lines 316-343 for one binding: the data specs of the child class that
\* are not explicitly mapped are copied under their prefixed names, unless
\* the class has a data spec of that name; for a derived one the routine is
\* installed under its prefixed name, unless the class has that attribute.
merge_data_specs_getter_kept(cls, sub_study_spec) ==
    LET added == {data_spec \in auto_data_specs(sub_study_spec) :
                     apply_prefix(sub_study_spec, data_spec.name)
                         \notin data_spec_names(cls)}
        getters == {data_spec.pipeline_getter :
                        data_spec \in {s \in added : s.derived}}
        installed == {g \in getters :
                         apply_prefix(sub_study_spec, g)
                             \notin DOMAIN cls.attrs}
        new_specs == [n \in {apply_prefix(sub_study_spec, s.name) :
                                s \in added} |->
                         [(CHOOSE s \in added :
                              apply_prefix(sub_study_spec, s.name) = n)
                          EXCEPT !.name = n]]
        new_attrs == [n \in {apply_prefix(sub_study_spec, g) :
                                g \in installed} |->
                         translate(sub_study_spec.name,
                                   CHOOSE g \in installed :
                                       apply_prefix(sub_study_spec, g) = n,
                                   TRUE)]
    IN  [cls EXCEPT !._data_specs = new_specs @@ cls._data_specs,
                    !.attrs = new_attrs @@ cls.attrs]

merge_data_specs_overwriting(cls, sub_study_spec) ==
    LET added == auto_data_specs(sub_study_spec)
        trans_data_spec(data_spec) ==
            [data_spec EXCEPT
                !.name = apply_prefix(sub_study_spec, data_spec.name),
                !.pipeline_getter =
                    IF data_spec.derived
                    THEN apply_prefix(sub_study_spec,
                                      data_spec.pipeline_getter)
                    ELSE data_spec.pipeline_getter]
        getters == {data_spec.pipeline_getter :
                        data_spec \in {s \in added : s.derived}}
        new_specs == [n \in {apply_prefix(sub_study_spec, s.name) :
                                s \in added} |->
                         trans_data_spec(
                             CHOOSE s \in added :
                                 apply_prefix(sub_study_spec, s.name) = n)]
        new_attrs == [n \in {apply_prefix(sub_study_spec, g) :
                                g \in getters} |->
                         translate(sub_study_spec.name,
                                   CHOOSE g \in getters :
                                       apply_prefix(sub_study_spec, g) = n,
                                   TRUE)]
    IN  [cls EXCEPT !._data_specs = new_specs @@ cls._data_specs,
                    !.attrs = new_attrs @@ cls.attrs]

merge_data_specs(cls, sub_study_spec) ==
    LET added == {data_spec \in auto_data_specs(sub_study_spec) :
                     apply_prefix(sub_study_spec, data_spec.name)
                         \notin data_spec_names(cls)}
        trans_data_spec(data_spec) ==
            [data_spec EXCEPT
                !.name = apply_prefix(sub_study_spec, data_spec.name),
                !.pipeline_getter =
                    IF data_spec.derived
                    THEN apply_prefix(sub_study_spec,
                                      data_spec.pipeline_getter)
                    ELSE data_spec.pipeline_getter]
        getters == {data_spec.pipeline_getter :
                        data_spec \in {s \in added : s.derived}}
        installed == {g \in getters :
                         apply_prefix(sub_study_spec, g)
                             \notin DOMAIN cls.attrs}
        new_specs == [n \in {apply_prefix(sub_study_spec, s.name) :
                                s \in added} |->
                         trans_data_spec(
                             CHOOSE s \in added :
                                 apply_prefix(sub_study_spec, s.name) = n)]
        new_attrs == [n \in {apply_prefix(sub_study_spec, g) :
                                g \in installed} |->
                         translate(sub_study_spec.name,
                                   CHOOSE g \in installed :
                                       apply_prefix(sub_study_spec, g) = n,
                                   TRUE)]
    IN  [cls EXCEPT !._data_specs = new_specs @@ cls._data_specs,
                    !.attrs = new_attrs @@ cls.attrs]

\* param_spec.renamed(name)
renamed(param_spec, name) == [param_spec EXCEPT !.name = name]

\* Lines 344-351 for one binding.
merge_param_specs_overwriting(cls, sub_study_spec) ==
    LET added == auto_param_specs(sub_study_spec)
        new_specs == [n \in {apply_prefix(sub_study_spec, s.name) :
                                s \in added} |->
                         renamed(CHOOSE s \in added :
                                     apply_prefix(sub_study_spec, s.name) = n,
                                 n)]
    IN  [cls EXCEPT !._param_specs = new_specs @@ cls._param_specs]

merge_param_specs(cls, sub_study_spec) ==
    LET added == {param_spec \in auto_param_specs(sub_study_spec) :
                     apply_prefix(sub_study_spec, param_spec.name)
                         \notin parameter_spec_names(cls)}
        new_specs == [n \in {apply_prefix(sub_study_spec, s.name) :
                                s \in added} |->
                         renamed(CHOOSE s \in added :
                                     apply_prefix(sub_study_spec, s.name) = n,
                                 n)]
    IN  [cls EXCEPT !._param_specs = new_specs @@ cls._param_specs]

\* Lines 314-351: the bindings are merged in the order of the dictionary.
RECURSIVE merge_sub_study_specs(_, _, _)
merge_sub_study_specs(cls, sub_study_specs, i) ==
    IF i > Len(sub_study_specs) THEN cls
    ELSE merge_sub_study_specs(
             merge_param_specs(
                 merge_data_specs(cls, sub_study_specs[i]),
                 sub_study_specs[i]),
             sub_study_specs, i + 1)

\* Lines 355-370 for one binding: a key that names no spec of the child
\* class, or a value that names no spec of the merged class.
name_map_error_keys_only(cls, sub_study_spec) ==
    \E local_name \in DOMAIN sub_study_spec._name_map :
        local_name \notin spec_names(sub_study_spec.study_class)

name_map_error(cls, sub_study_spec) ==
    \E local_name \in DOMAIN sub_study_spec._name_map :
        \/ local_name \notin spec_names(sub_study_spec.study_class)
        \/ sub_study_spec._name_map[local_name] \notin spec_names(cls)

\* Lines 352-371: the first binding with an error in its name map decides.
RECURSIVE check_name_maps(_, _, _)
check_name_maps(cls, sub_study_specs, i) ==
    IF i > Len(sub_study_specs) THEN Return(cls)
    ELSE IF name_map_error(cls, sub_study_specs[i])
         THEN Raise("ArcanaUsageError",
                    [cls |-> cls.name,
                     sub_study_spec |-> sub_study_specs[i].name])
         ELSE check_name_maps(cls, sub_study_specs, i + 1)

MultiStudyMetaClass__new__(name, bases, dct) ==
    IF ~\E i \in 1..Len(bases) : bases[i].multi
    THEN Raise("ArcanaUsageError", [cls |-> name, sub_study_spec |-> ""])
    ELSE LET add_sub_study_specs == dct_get(dct, "add_sub_study_specs", <<>>)
             sub_study_specs == gather(bases, add_sub_study_specs)
             metaclass == dct_get(dct, "__metaclass__",
                                  "MultiStudyMetaClass")
             created == StudyMetaClass(
                            name, bases,
                            ("_sub_study_specs" :> sub_study_specs)
                                @@ ("__metaclass__" :> metaclass) @@ dct)
         IN  IF created.exc # "none" THEN created
             ELSE check_name_maps(
                      merge_sub_study_specs(created.val, sub_study_specs, 1),
                      sub_study_specs, 1)

(***************************************************************************)
(* Study instances.  An instance is a record: cls, name, _inputs (supplied *)
(* data by spec name), _parameters (supplied values by parameter name) and *)
(* _sub_studies (child instances by binding name).                         *)
(***************************************************************************)
\* A datum supplied as the input of a study.
Input(name) ==
    [name |-> name, kind |-> "input", derived |-> FALSE,
     pipeline_getter |-> "", default |-> 0]

\* Study.__init__: every input must name a data spec of the class.
Study__init__(cls, name, inputs, parameters) ==
    IF \E n \in DOMAIN inputs : n \notin data_spec_names(cls)
    THEN Raise("ArcanaNameError",
               CHOOSE n \in DOMAIN inputs : n \notin data_spec_names(cls))
    ELSE Return([cls |-> cls, name |-> name, _inputs |-> inputs,
                 _parameters |-> parameters, _sub_studies |-> <<>>])

input_names(self) == DOMAIN self._inputs

\* Study.spec(name): the supplied input, else the spec when it is derived.
spec(self, name) ==
    IF name \in DOMAIN self._inputs THEN Return(self._inputs[name])
    ELSE IF name \notin data_spec_names(self.cls)
         THEN Raise("ArcanaNameError", name)
         ELSE IF ~self.cls._data_specs[name].derived
              THEN Raise("ArcanaMissingDataException", name)
              ELSE Return(self.cls._data_specs[name])

\* Study._get_parameter(name): the supplied value, else the default.
get_parameter(self, name) ==
    IF name \in DOMAIN self._parameters THEN Return(self._parameters[name])
    ELSE IF name \in parameter_spec_names(self.cls)
         THEN Return(self.cls._param_specs[name].default)
         ELSE Raise("ArcanaNameError", name)

\* Lines 95-107: the input of the child under data_name, as Return(<<v>>),
\* Return(<<>>) when there is none, or the error that escapes.
mapped_input_supplied_only(self, sub_study_spec, data_name) ==
    LET mapped_name == map(sub_study_spec, data_name)
    IN  IF mapped_name.exc # "none" THEN mapped_name
        ELSE IF mapped_name.val \in input_names(self)
             THEN Return(<<self._inputs[mapped_name.val]>>)
             ELSE Return(<<>>)

mapped_input(self, sub_study_spec, data_name) ==
    LET mapped_name == map(sub_study_spec, data_name)
    IN  IF mapped_name.exc # "none" THEN mapped_name
        ELSE IF mapped_name.val \in input_names(self)
             THEN Return(<<self._inputs[mapped_name.val]>>)
             ELSE LET inpt == spec(self, mapped_name.val)
                  IN  IF inpt.exc = "ArcanaMissingDataException"
                      THEN Return(<<>>)
                      ELSE IF inpt.exc # "none" THEN inpt
                           ELSE IF inpt.val.derived
                                THEN Return(<<inpt.val>>)
                                ELSE Return(<<>>)

mapped_inputs(self, sub_study_spec) ==
    LET names == data_spec_names(sub_study_spec.study_class)
        failed == {n \in names :
                      mapped_input(self, sub_study_spec, n).exc # "none"}
        passed == {n \in names :
                      mapped_input(self, sub_study_spec, n).val # <<>>}
    IN  IF failed # {}
        THEN mapped_input(self, sub_study_spec, CHOOSE n \in failed : TRUE)
        ELSE Return([n \in passed |->
                        mapped_input(self, sub_study_spec, n).val[1]])

\* Lines 108-113.
mapped_parameter(self, sub_study_spec, param_name) ==
    LET mapped_name == map(sub_study_spec, param_name)
    IN  IF mapped_name.exc # "none" THEN mapped_name
        ELSE get_parameter(self, mapped_name.val)

mapped_parameters(self, sub_study_spec) ==
    LET names == parameter_spec_names(sub_study_spec.study_class)
        failed == {n \in names :
                      mapped_parameter(self, sub_study_spec, n).exc # "none"}
    IN  IF failed # {}
        THEN mapped_parameter(self, sub_study_spec,
                              CHOOSE n \in failed : TRUE)
        ELSE Return([n \in names |->
                        mapped_parameter(self, sub_study_spec, n).val])

RECURSIVE MultiStudy__init__(_, _, _, _)
RECURSIVE new_sub_studies(_, _)

\* sub_study_spec.study_class(name, ..., inputs, parameters=parameters)
new_study(cls, name, inputs, parameters) ==
    IF cls.multi THEN MultiStudy__init__(cls, name, inputs, parameters)
    ELSE Study__init__(cls, name, inputs, parameters)

\* Lines 92-127, from the i-th binding of the class on.
new_sub_studies(self, i) ==
    IF i > Len(self.cls._sub_study_specs) THEN Return(self)
    ELSE LET sub_study_spec == self.cls._sub_study_specs[i]
             inputs == mapped_inputs(self, sub_study_spec)
             parameters == mapped_parameters(self, sub_study_spec)
             sub_study ==
                 new_study(sub_study_spec.study_class,
                           self.name \o "_" \o sub_study_spec.name,
                           inputs.val, parameters.val)
         IN  IF inputs.exc # "none" THEN inputs
             ELSE IF parameters.exc # "none" THEN parameters
             ELSE IF sub_study.exc # "none" THEN sub_study
             ELSE IF sub_study_spec.name \in DOMAIN self._sub_studies
             THEN Raise("ArcanaNameError", sub_study_spec.name)
             ELSE new_sub_studies(
                      [self EXCEPT !._sub_studies =
                          (sub_study_spec.name :> sub_study.val) @@ @],
                      i + 1)

\* MultiStudy.__init__, lines 75-127.
MultiStudy__init__(cls, name, inputs, parameters) ==
    IF cls.metaclass # "MultiStudyMetaClass"
    THEN Raise("ArcanaUsageError", name)
    ELSE LET self == Study__init__(cls, name, inputs, parameters)
         IN  IF self.exc # "none" THEN self
             ELSE new_sub_studies(self.val, 1)

(***************************************************************************)
(* Routines.  A pipeline is the record of the call that builds it: the     *)
(* routine, the instance it was called on and the keyword arguments.       *)
(***************************************************************************)
sub_study_spec_of(cls, name) ==
    IF \E i \in 1..Len(cls._sub_study_specs) :
           cls._sub_study_specs[i].name = name
    THEN Return(cls._sub_study_specs[
                    CHOOSE i \in 1..Len(cls._sub_study_specs) :
                        cls._sub_study_specs[i].name = name])
    ELSE Raise("ArcanaNameError", name)

sub_study(self, name) ==
    IF name \in DOMAIN self._sub_studies
    THEN Return(self._sub_studies[name])
    ELSE Raise("ArcanaNameError", name)

RECURSIVE call_getter(_, _, _)

\* translated_getter(self, **name_maps), lines 189-196.
translated_getter_explicit(self, sub_study_name, pipeline_getter, name_maps) ==
    LET sub_study_spec == sub_study_spec_of(self.cls, sub_study_name)
        child == sub_study(self, sub_study_name)
    IN  IF sub_study_spec.exc # "none" THEN sub_study_spec
        ELSE IF child.exc # "none" THEN child
        ELSE call_getter(
                 child.val, pipeline_getter,
                 [prefix |-> sub_study_name \o "_",
                  input_map |-> sub_study_spec.val._name_map,
                  output_map |-> sub_study_spec.val._name_map,
                  study |-> self.name,
                  name_maps |-> name_maps])

translated_getter(self, sub_study_name, pipeline_getter, name_maps) ==
    LET sub_study_spec == sub_study_spec_of(self.cls, sub_study_name)
        child == sub_study(self, sub_study_name)
    IN  IF sub_study_spec.exc # "none" THEN sub_study_spec
        ELSE IF child.exc # "none" THEN child
        ELSE call_getter(
                 child.val, pipeline_getter,
                 [prefix |-> sub_study_name \o "_",
                  input_map |-> name_map(sub_study_spec.val),
                  output_map |-> name_map(sub_study_spec.val),
                  study |-> self.name,
                  name_maps |-> name_maps])

\* getattr(self, getter)(**kwargs)
call_getter(self, getter, kwargs) ==
    IF getter \notin DOMAIN self.cls.attrs
    THEN Raise("AttributeError", getter)
    ELSE LET routine == self.cls.attrs[getter]
         IN  IF routine.sub_study_name = ""
             THEN Return([routine |-> getter, self |-> self.name,
                          kwargs |-> kwargs])
             ELSE translated_getter(self, routine.sub_study_name,
                                    routine.pipeline_getter, kwargs)

(***************************************************************************)
(* set_specs (nianalysis/study/base.py): the registry of a study type from *)
(* the specs it declares and the specs it inherits.  A spec is a record    *)
(* name, origin; the result is a dictionary, as a function from names.     *)
(***************************************************************************)
\* The names found twice when the components are taken in some order.
multiple_values(comps) ==
    {c.name : c \in {d \in comps : \E e \in comps : e # d /\ e.name = d.name}}

\* set_specs(*set(kwargs['inherit_from'])): the components are the distinct
\* inherited specs, in the arbitrary order of a set; the assertion fails at
\* the first name met a second time.
set_specs_inherited(inherit_from) ==
    LET comps == {inherit_from[i] : i \in 1..Len(inherit_from)}
    IN  IF multiple_values(comps) # {}
        THEN {Raise("AssertionError", n) : n \in multiple_values(comps)}
        ELSE {Return([n \in {c.name : c \in comps} |->
                         CHOOSE c \in comps : c.name = n])}

\* The possible outcomes of set_specs(*comps, **kwargs).
set_specs(comps, kwargs) ==
    IF duplicate_names(comps)
    THEN {Raise("AssertionError",
                comps[CHOOSE j \in 1..Len(comps) :
                          /\ \E i \in 1..(j - 1) : comps[i].name = comps[j].name
                          /\ \A k \in 1..(j - 1) :
                                 \A i \in 1..(k - 1) :
                                     comps[i].name # comps[k].name].name)}
    ELSE LET dct == by_name(comps)
         IN  IF "inherit_from" \in DOMAIN kwargs
             THEN {IF combined.exc # "none" THEN combined
                   ELSE Return(dct @@ combined.val) :
                       combined \in set_specs_inherited(kwargs.inherit_from)}
             ELSE {Return(dct)}

\* Declarations of a study type and of its ancestors, closest first.
Declarations ==
    {[name |-> n, origin |-> "local"] : n \in {"x", "y"}}
    \cup {[name |-> "x", origin |-> "local2"]}

Inheritable ==
    {[name |-> "x", origin |-> "base1"], [name |-> "x", origin |-> "base2"],
     [name |-> "y", origin |-> "base2"]}

Keywords ==
    {<<>>} \cup {[inherit_from |-> specs] : specs \in SeqsUpTo(Inheritable, 2)}

(***************************************************************************)
(* Study (nianalysis/study/base.py): construction of an instance from a    *)
(* list of inputs, and the lookup of a dataset by name.  The class is a    *)
(* record name, _data_specs; the instance a record cls, name, _inputs.     *)
(* What nianalysis calls a processed spec is a derived one.                *)
(***************************************************************************)
\* Study.acquired_data_specs(), lines 168-174.
acquired_data_specs(cls) ==
    {cls._data_specs[n] :
        n \in {k \in DOMAIN cls._data_specs : ~cls._data_specs[k].derived}}

\* Lines 50-58 from the i-th input on: the inputs recorded so far, by name.
RECURSIVE add_inputs_unchecked(_, _, _, _)
add_inputs_unchecked(cls, inputs, i, recorded) ==
    IF i > Len(inputs) THEN Return(recorded)
    ELSE add_inputs_unchecked(cls, inputs, i + 1,
                              (inputs[i].name :> inputs[i]) @@ recorded)

RECURSIVE add_inputs(_, _, _, _)
add_inputs(cls, inputs, i, recorded) ==
    IF i > Len(inputs) THEN Return(recorded)
    ELSE IF inputs[i].name \notin DOMAIN cls._data_specs
         THEN Raise("NiAnalysisNameError", inputs[i].name)
         ELSE add_inputs(cls, inputs, i + 1,
                         (inputs[i].name :> inputs[i]) @@ recorded)

\* Study.__init__(name, archive, inputs, check_inputs), lines 45-71: the
\* instance, and the names the warnings of lines 61-69 are logged for.
NiAnalysisStudy__init__(cls, name, inputs, check_inputs) ==
    LET recorded == add_inputs(cls, inputs, 1, <<>>)
    IN  IF recorded.exc # "none" THEN recorded
        ELSE Return(
            [self |-> [cls |-> cls, name |-> name, _inputs |-> recorded.val],
             warnings |->
                 IF check_inputs
                 THEN {a.name : a \in {b \in acquired_data_specs(cls) :
                                          b.name \notin DOMAIN recorded.val}}
                 ELSE {}])

\* Study.prefix, lines 114-117.
prefix(self) == self.name \o "_"

\* DatasetSpec.apply_prefix(prefix): the spec under its prefixed name.
spec_apply_prefix(data_spec, prefix_) ==
    [data_spec EXCEPT !.name = prefix_ \o @]

\* Study.dataset(name), lines 77-108.
dataset_inputs_ignored(self, name) ==
    IF name \notin DOMAIN self.cls._data_specs
    THEN Raise("NiAnalysisNameError", name)
    ELSE LET dataset_ == spec_apply_prefix(self.cls._data_specs[name],
                                           prefix(self))
         IN  IF ~dataset_.derived
             THEN Raise("NiAnalysisMissingDatasetError", name)
             ELSE Return(dataset_)

dataset(self, name) ==
    IF name \in DOMAIN self._inputs THEN Return(self._inputs[name])
    ELSE IF name \notin DOMAIN self.cls._data_specs
         THEN Raise("NiAnalysisNameError", name)
         ELSE LET dataset_ == spec_apply_prefix(self.cls._data_specs[name],
                                                prefix(self))
              IN  IF ~dataset_.derived
                  THEN Raise("NiAnalysisMissingDatasetError", name)
                  ELSE Return(dataset_)

\* A study class with two acquired and two derived specs.
DatasetStudy ==
    [name |-> "DatasetStudy",
     _data_specs |-> ("x" :> DataSpec("x")) @@ ("y" :> DataSpec("y"))
                         @@ ("z" :> DerivedSpec("z", "pipeline_alpha"))
                         @@ ("u" :> DerivedSpec("u", "pipeline_alpha"))]

\* The datasets given as inputs: two of them carry the same name, and are
\* told apart by their last field.
InputDatasets ==
    {Input(n) : n \in {"x", "y", "z", "nope"}}
    \cup {[Input("x") EXCEPT !.default = 1]}

\* Names a dataset is looked up under.
DatasetNames == {"x", "y", "z", "u", "nope"}

(***************************************************************************)
(* The study classes and class bodies the composition is exercised on.     *)
(* StudyA and StudyB are plain studies, PartialMultiStudy is a composite   *)
(* of StudyB; their spec names are chosen so that prefixed names of        *)
(* different bindings can meet ("a" + "_" + "b_c" = "a_b" + "_" + "c").    *)
(***************************************************************************)
StudyA ==
    StudyMetaClass("StudyA", <<Study>>,
        [add_data_specs |-> <<DataSpec("c"), DerivedSpec("b_c", "b_g")>>,
         add_param_specs |-> <<ParameterSpec("p", 1),
                               ParameterSpec("b_p", 2)>>,
         methods |-> own_methods({"b_g"})]).val

StudyB ==
    StudyMetaClass("StudyB", <<Study>>,
        [add_data_specs |-> <<DataSpec("w"), DerivedSpec("c", "g"),
                              DerivedSpec("d", "g")>>,
         add_param_specs |-> <<ParameterSpec("p", 10)>>,
         methods |-> own_methods({"g"})]).val

PartialMultiStudy ==
    MultiStudyMetaClass__new__("PartialMultiStudy", <<MultiStudy>>,
        [add_sub_study_specs |->
             <<SubStudySpec("b", StudyB, Dict("p" :> "q"))>>,
         add_param_specs |-> <<ParameterSpec("q", 100)>>]).val

StudyClasses == {StudyA, StudyB, PartialMultiStudy}

\* A second composite, with a binding named as the one of PartialMultiStudy,
\* and the lists of bases a composite is derived from.
SecondMultiStudy ==
    MultiStudyMetaClass__new__("SecondMultiStudy", <<MultiStudy>>,
        [add_sub_study_specs |->
             <<SubStudySpec("b", StudyA, NoneArgument),
               SubStudySpec("a", StudyB, NoneArgument)>>]).val

CompositeBases ==
    {<<PartialMultiStudy>>, <<PartialMultiStudy, SecondMultiStudy>>,
     <<SecondMultiStudy, PartialMultiStudy>>, <<Study, SecondMultiStudy>>}

\* Binding names and explicit name maps (None: no map given).
SubStudyNames == {"a", "a_b"}

NameMaps ==
    {NoneArgument, Dict("c" :> "x"), Dict("p" :> "q"), Dict("b_c" :> "x"),
     Dict("c" :> "a_b_d"), Dict("zz" :> "x"), Dict("c" :> "nope")}

SubStudySpecs ==
    {SubStudySpec(name, study_class, nmap) :
        name \in SubStudyNames, study_class \in StudyClasses,
        nmap \in NameMaps}

\* Names handed to SubStudySpec.map.
LocalNames == {"c", "b_c", "d", "w", "p", "b_p", "q", "b_w", "zz"}

\* add_sub_study_specs lists: none, one or two bindings.
SubStudySpecLists ==
    {<<>>} \cup {<<s>> : s \in SubStudySpecs}
           \cup {<<s, t>> : s \in SubStudySpecs, t \in SubStudySpecs}

\* What else a composite class body declares: nothing; a data spec and a
\* parameter of its own; specs and a routine under names that the merge
\* would produce; a routine under a name that the merge would install; one
\* name twice;
\* routines made with MultiStudy.translate in the class body.
ClassBodies ==
    {<<>>,
     [add_data_specs |-> <<DataSpec("x")>>,
      add_param_specs |-> <<ParameterSpec("q", 100)>>],
     [add_data_specs |-> <<DataSpec("x"), DataSpec("a_c")>>,
      add_param_specs |-> <<ParameterSpec("q", 100),
                            ParameterSpec("a_p", 50)>>,
      methods |-> own_methods({"a_g"})],
     [add_data_specs |-> <<DataSpec("x")>>,
      add_param_specs |-> <<ParameterSpec("q", 100)>>,
      methods |-> own_methods({"a_b_g"})],
     [add_data_specs |-> <<DataSpec("x"), DataSpec("x")>>],
     [add_data_specs |-> <<DataSpec("x")>>,
      add_param_specs |-> <<ParameterSpec("q", 100)>>,
      methods |-> ("b_g_trans" :> translate("a", "b_g", FALSE))
                      @@ ("g_trans" :> translate("zz", "g", FALSE))]}

\* The class statements: composites of MultiStudy, of other composites, and
\* one of plain Study.
ClassStatements ==
    {[name |-> "P", bases |-> <<MultiStudy>>,
      dct |-> ("add_sub_study_specs" :> specs) @@ body] :
        specs \in SubStudySpecLists, body \in ClassBodies}
    \cup {[name |-> "P", bases |-> bases,
           dct |-> ("add_sub_study_specs" :> specs)] :
             bases \in CompositeBases,
             specs \in {l \in SubStudySpecLists : Len(l) <= 1}}
    \cup {[name |-> "P", bases |-> <<MultiStudy>>, dct |-> body] :
             body \in ClassBodies}
    \cup {[name |-> "P", bases |-> <<Study>>,
           dct |-> ("add_sub_study_specs" :> <<s>>)] : s \in SubStudySpecs}

\* Inputs and parameters a composite instance is constructed with.
InputNames == {"x", "a_b_w", "zz"}

InputMaps == {<<>>} \cup {(n :> Input(n)) : n \in InputNames}

ParameterNames == {"q", "a_p", "a_b_p"}

ParameterValue == 7

ParameterMaps(cls) ==
    {<<>>} \cup {(n :> ParameterValue) :
                    n \in ParameterNames \cap parameter_spec_names(cls)}

(***************************************************************************)
(* The life of a composite type: the class statement is executed, an       *)
(* instance of the class is constructed, a routine of the instance is      *)
(* called.  heap holds the class statement and the class once defined.     *)
(***************************************************************************)
NameMap ==
    /\ op = "none"
    /\ \E self \in SubStudySpecs :
        /\ op' = "name_map"
        /\ args' = [self |-> self]
        /\ ret' = Return(name_map(self))
        /\ heap' = <<>>

Map ==
    /\ op = "none"
    /\ \E self \in SubStudySpecs, name \in LocalNames :
        /\ op' = "map"
        /\ args' = [self |-> self, name |-> name]
        /\ ret' = map(self, name)
        /\ heap' = <<>>

DefineMultiStudy ==
    /\ op = "none"
    /\ \E stmt \in ClassStatements :
        /\ op' = "MultiStudyMetaClass.__new__"
        /\ args' = stmt
        /\ ret' = MultiStudyMetaClass__new__(stmt.name, stmt.bases, stmt.dct)
        /\ heap' = <<>>

NewMultiStudy ==
    /\ op = "MultiStudyMetaClass.__new__"
    /\ ret.exc = "none"
    /\ \E inputs \in InputMaps, parameters \in ParameterMaps(ret.val) :
        /\ op' = "MultiStudy.__init__"
        /\ args' = [cls |-> ret.val, name |-> "p", inputs |-> inputs,
                    parameters |-> parameters]
        /\ ret' = MultiStudy__init__(ret.val, "p", inputs, parameters)
        /\ heap' = [stmt |-> args]

CallGetter ==
    /\ op = "MultiStudy.__init__"
    /\ ret.exc = "none"
    /\ \E getter \in DOMAIN ret.val.cls.attrs :
        /\ op' = "getattr"
        /\ args' = [self |-> ret.val, getter |-> getter]
        /\ ret' = call_getter(ret.val, getter, <<>>)
        /\ heap' = heap

\* name_map[key] = value, on the dictionary that was passed to SubStudySpec
\* for the i-th binding of a class: line 224 keeps the dictionary itself,
\* not a copy, so the assignment is seen through the binding.
name_map_setitem(cls, i, key, value) ==
    [cls EXCEPT !._sub_study_specs[i]._name_map = (key :> value) @@ @]

\* Keys and values a caller assigns in such a dictionary.
AssignedKeys == {"c", "p"}

AssignedValues == {"x", "nope"}

\* The caller assigns in the dictionary of a binding after the class
\* statement has been executed; a binding made with name_map=None holds a
\* dictionary of its own that the caller never had.
SetItem ==
    /\ op = "MultiStudyMetaClass.__new__"
    /\ ret.exc = "none"
    /\ \E i \in 1..Len(ret.val._sub_study_specs) :
        /\ ret.val._sub_study_specs[i]._name_map # <<>>
        /\ \E key \in AssignedKeys, value \in AssignedValues :
            /\ op' = "dict.__setitem__"
            /\ args' = [i |-> i, key |-> key, value |-> value]
            /\ ret' = Return(name_map_setitem(ret.val, i, key, value))
            /\ heap' = [stmt |-> args, cls |-> ret.val]

NewStudy ==
    /\ op = "none"
    /\ \E inputs \in SeqsUpTo(InputDatasets, 2), check_inputs \in BOOLEAN :
        /\ op' = "Study.__init__"
        /\ args' = [cls |-> DatasetStudy, name |-> "s", inputs |-> inputs,
                    check_inputs |-> check_inputs]
        /\ ret' = NiAnalysisStudy__init__(DatasetStudy, "s", inputs,
                                          check_inputs)
        /\ heap' = <<>>

Dataset ==
    /\ op = "Study.__init__"
    /\ ret.exc = "none"
    /\ \E name \in DatasetNames :
        /\ op' = "Study.dataset"
        /\ args' = [self |-> ret.val.self, name |-> name]
        /\ ret' = dataset(ret.val.self, name)
        /\ heap' = <<>>

SetSpecs ==
    /\ op = "none"
    /\ \E comps \in SeqsUpTo(Declarations, 2), kwargs \in Keywords :
        /\ op' = "set_specs"
        /\ args' = [comps |-> comps, kwargs |-> kwargs]
        /\ ret' \in set_specs(comps, kwargs)
        /\ heap' = <<>>

NextStudy ==
    \/ NameMap
    \/ Map
    \/ DefineMultiStudy
    \/ NewMultiStudy
    \/ CallGetter
    \/ SetItem
    \/ NewStudy
    \/ Dataset
    \/ SetSpecs

SpecStudy == Init /\ [][NextStudy]_vars

(***************************************************************************)
(* Claims about study composition.  The names of a child class and of a    *)
(* binding, written out for the formulas below.                            *)
(***************************************************************************)
DataNames(cls) == DOMAIN cls._data_specs

ParamNames(cls) == DOMAIN cls._param_specs

SpecNames(cls) == DataNames(cls) \cup ParamNames(cls)

ExplicitKeys(b) == DOMAIN b._name_map

Prefixed(b, n) == b.name \o "_" \o n

(***************************************************************************)
(* C11 as stated: name_map is the explicit map plus an entry               *)
(* n -> child_name + "_" + n for every spec of the child class, data spec  *)
(* or parameter spec, that is not a key of the explicit map; explicit      *)
(* entries take precedence and every spec name of the child class is in    *)
(* the domain.                                                             *)
(***************************************************************************)
C11_NameMapCoversAllSpecs ==
    op = "name_map" =>
        LET b == args.self
        IN  /\ ret.exc = "none"
            /\ DOMAIN ret.val = ExplicitKeys(b) \cup SpecNames(b.study_class)
            /\ \A n \in DOMAIN ret.val :
                   ret.val[n] = IF n \in ExplicitKeys(b) THEN b._name_map[n]
                                ELSE Prefixed(b, n)

(***************************************************************************)
(* C11, amended: name_map is the explicit map plus an entry                *)
(* n -> child_name + "_" + n for every data spec of the child class that   *)
(* is not a key of the explicit map; explicit entries take precedence; the *)
(* domain is the keys of the explicit map together with the data spec      *)
(* names of the child class, so a parameter spec that is not explicitly    *)
(* mapped has no entry.                                                    *)
(***************************************************************************)
C11_NameMapCoversDataSpecs ==
    op = "name_map" =>
        LET b == args.self
        IN  /\ ret.exc = "none"
            /\ DOMAIN ret.val = ExplicitKeys(b) \cup DataNames(b.study_class)
            /\ \A n \in DOMAIN ret.val :
                   ret.val[n] = IF n \in ExplicitKeys(b) THEN b._name_map[n]
                                ELSE Prefixed(b, n)
            /\ \A n \in ParamNames(b.study_class) \ ExplicitKeys(b) :
                   n \notin DOMAIN ret.val

\* A binding with an explicit entry, an unmapped data spec and an unmapped
\* parameter spec.
C11_Witness ==
    /\ op = "name_map"
    /\ ExplicitKeys(args.self) # {}
    /\ DataNames(args.self.study_class) \ ExplicitKeys(args.self) # {}
    /\ ParamNames(args.self.study_class) \ ExplicitKeys(args.self) # {}
    /\ ret.exc = "none"

(***************************************************************************)
(* C12 as stated: map(n) is the explicit value when n is a key of the      *)
(* explicit map, whatever the child class declares; otherwise it is        *)
(* child_name + "_" + n when n names a data or parameter spec of the child *)
(* class, and the unknown-name error when it names none; and for every     *)
(* spec name n of the child class map(n) equals name_map[n].               *)
(***************************************************************************)
C12_MapAgreesWithNameMap ==
    op = "map" =>
        LET b == args.self
            n == args.name
        IN  /\ n \in ExplicitKeys(b) => ret = Return(b._name_map[n])
            /\ n \notin ExplicitKeys(b) /\ n \in SpecNames(b.study_class)
                   => ret = Return(Prefixed(b, n))
            /\ n \notin ExplicitKeys(b) /\ n \notin SpecNames(b.study_class)
                   => ret.exc = "ArcanaNameError"
            /\ n \in SpecNames(b.study_class) =>
                   /\ n \in DOMAIN name_map(b)
                   /\ ret = Return(name_map(b)[n])

(***************************************************************************)
(* C12, amended: the three cases of map(n) as stated; map(n) equals        *)
(* name_map[n] for every n that is a key of the explicit map or names a    *)
(* data spec of the child class; for a parameter spec n that is not        *)
(* explicitly mapped map(n) is child_name + "_" + n while name_map has no  *)
(* entry for n.                                                            *)
(***************************************************************************)
C12_MapAgreesOnDataSpecs ==
    op = "map" =>
        LET b == args.self
            n == args.name
        IN  /\ n \in ExplicitKeys(b) => ret = Return(b._name_map[n])
            /\ n \notin ExplicitKeys(b) /\ n \in SpecNames(b.study_class)
                   => ret = Return(Prefixed(b, n))
            /\ n \notin ExplicitKeys(b) /\ n \notin SpecNames(b.study_class)
                   => ret.exc = "ArcanaNameError"
            /\ n \in ExplicitKeys(b) \cup DataNames(b.study_class) =>
                   /\ n \in DOMAIN name_map(b)
                   /\ ret = Return(name_map(b)[n])
            /\ n \in ParamNames(b.study_class) \ ExplicitKeys(b) =>
                   /\ n \notin DOMAIN name_map(b)
                   /\ ret = Return(Prefixed(b, n))

\* map is asked for a parameter spec of the child class that is not
\* explicitly mapped.
C12_Witness ==
    /\ op = "map"
    /\ args.name \in ParamNames(args.self.study_class)
                         \ ExplicitKeys(args.self)
    /\ ExplicitKeys(args.self) # {}
    /\ ret.exc = "none"

(***************************************************************************)
(* The bindings of a class statement and of a class, and the collisions    *)
(* between the prefixed names of two bindings.                             *)
(***************************************************************************)
Elements(seq) == {seq[i] : i \in 1..Len(seq)}

Declared(stmt) ==
    IF "add_sub_study_specs" \in DOMAIN stmt.dct
    THEN stmt.dct.add_sub_study_specs ELSE <<>>

Unmapped(b) == SpecNames(b.study_class) \ ExplicitKeys(b)

Colliding(b1, b2) ==
    /\ b1.name # b2.name
    /\ \E n1 \in Unmapped(b1), n2 \in Unmapped(b2) :
           Prefixed(b1, n1) = Prefixed(b2, n2)

Defined == op = "MultiStudyMetaClass.__new__" /\ ret.exc = "none"

(***************************************************************************)
(* C13: in every composite type whose definition succeeds, every spec of   *)
(* every binding's child class is in the merged spec set, under its        *)
(* explicit name when it is explicitly mapped and under                    *)
(* child_name + "_" + name otherwise; and every name of the merged spec    *)
(* set stands for one specification: none is both a data spec and a        *)
(* parameter spec, and no two child specs of different bindings share one  *)
(* prefixed name.                                                          *)
(***************************************************************************)
C13_MergedNamesUnique ==
    Defined =>
        LET T == ret.val
            B == Elements(T._sub_study_specs)
        IN  /\ \A b \in B : \A n \in SpecNames(b.study_class) :
                   IF n \in ExplicitKeys(b)
                   THEN b._name_map[n] \in SpecNames(T)
                   ELSE Prefixed(b, n) \in SpecNames(T)
            /\ DataNames(T) \cap ParamNames(T) = {}
            /\ \A b1 \in B, b2 \in B : ~Colliding(b1, b2)

(***************************************************************************)
(* C14: the definition of a composite type is rejected with an error when  *)
(* two child specs of two bindings of different names get the same         *)
(* prefixed name in the parent.                                            *)
(***************************************************************************)
C14_CollisionRejected ==
    op = "MultiStudyMetaClass.__new__" =>
        \A b1 \in Elements(Declared(args)), b2 \in Elements(Declared(args)) :
            Colliding(b1, b2) => ret.exc # "none"

(***************************************************************************)
(* C15: when the add_sub_study_specs list of a class body holds two        *)
(* SubStudySpecs of one name, the composition fails, in the class          *)
(* statement or at the latest when an instance is constructed: no instance *)
(* of such a class is ever constructed successfully.                       *)
(***************************************************************************)
C15_DuplicateBindingRejected ==
    op = "MultiStudy.__init__" /\ duplicate_names(Declared(heap.stmt))
        => ret.exc # "none"

(***************************************************************************)
(* The bindings a class statement leaves to its type (of two declarations  *)
(* of one name the later), what the class body declares itself, and the    *)
(* names of the fully merged parent: declared, inherited, and the prefixed *)
(* names of the unmapped specs of all bindings.                            *)
(***************************************************************************)
TypeBindings(stmt) ==
    {Declared(stmt)[i] : i \in {k \in 1..Len(Declared(stmt)) :
        \A j \in (k + 1)..Len(Declared(stmt)) :
            Declared(stmt)[j].name # Declared(stmt)[k].name}}

LocalSpecs(stmt, key) ==
    IF key \in DOMAIN stmt.dct THEN Elements(stmt.dct[key]) ELSE {}

LocalNamesOf(stmt) ==
    {s.name : s \in LocalSpecs(stmt, "add_data_specs")
                        \cup LocalSpecs(stmt, "add_param_specs")}

MergedNames(stmt) ==
    LocalNamesOf(stmt)
    \cup UNION {SpecNames(stmt.bases[i]) : i \in 1..Len(stmt.bases)}
    \cup UNION {{Prefixed(b, n) : n \in Unmapped(b)} :
                   b \in TypeBindings(stmt)}

BadKey(b) == \E k \in ExplicitKeys(b) : k \notin SpecNames(b.study_class)

BadValue(stmt, b) ==
    \E k \in ExplicitKeys(b) : b._name_map[k] \notin MergedNames(stmt)

OwnParams(stmt) ==
    LET own == by_name(dct_get(stmt.dct, "add_param_specs", <<>>))
    IN  own @@ inherited(stmt.bases, "_param_specs")

UnmappedParams(b) == ParamNames(b.study_class) \ ExplicitKeys(b)

Produces(b, n) == \E q \in UnmappedParams(b) : Prefixed(b, q) = n

\* The default under which the parent holds the prefixed name n: its own
\* when it declares or inherits the name, else the one of the first binding
\* that produces it.
HeldDefault(stmt, T, n) ==
    IF n \in DOMAIN OwnParams(stmt) THEN OwnParams(stmt)[n].default
    ELSE LET B == T._sub_study_specs
             i == CHOOSE k \in 1..Len(B) :
                      /\ Produces(B[k], n)
                      /\ \A j \in 1..(k - 1) : ~Produces(B[j], n)
             q == CHOOSE q \in UnmappedParams(B[i]) : Prefixed(B[i], q) = n
         IN  B[i].study_class._param_specs[q].default

\* The routines of the type that neither the class body nor a base defines
\* are forwarding routines for derivation routines of data specs.
NoParameterRoutines(stmt, T) ==
    \A a \in DOMAIN T.attrs :
        \/ a \in DOMAIN dct_get(stmt.dct, "methods", <<>>)
        \/ \E i \in 1..Len(stmt.bases) : a \in DOMAIN stmt.bases[i].attrs
        \/ \E b \in Elements(T._sub_study_specs) :
               \E s \in data_specs(b.study_class) :
                   /\ s.derived
                   /\ s.name \notin ExplicitKeys(b)
                   /\ a = Prefixed(b, s.pipeline_getter)
                   /\ T.attrs[a] = [auto_added |-> TRUE,
                                    sub_study_name |-> b.name,
                                    pipeline_getter |-> s.pipeline_getter]

(***************************************************************************)
(* C17 as stated: for every binding and every parameter spec p of the      *)
(* child class that is not a key of the explicit map, the parent has a     *)
(* parameter spec child_name + "_" + p.name that carries p's default; a    *)
(* bare p.name is in the parent only if the parent declares or inherits    *)
(* it; no forwarding routine is created for parameters.                    *)
(***************************************************************************)
C17_ParameterDefaultsCarried ==
    Defined =>
        LET T == ret.val
        IN  /\ \A b \in Elements(T._sub_study_specs) :
                   \A p \in UnmappedParams(b) :
                       /\ Prefixed(b, p) \in ParamNames(T)
                       /\ T._param_specs[Prefixed(b, p)].default
                              = b.study_class._param_specs[p].default
                       /\ p \in ParamNames(T) => p \in DOMAIN OwnParams(args)
            /\ NoParameterRoutines(args, T)

(***************************************************************************)
(* C17, amended: the parent has a parameter spec child_name + "_" + p.name *)
(* for every such p; it carries p's default unless the parent held a       *)
(* parameter spec of that name when the binding was merged (one that it    *)
(* declares or inherits, or one added for an earlier binding), which is    *)
(* kept as it is.  The merge adds parameter specs under such prefixed      *)
(* names only, so a bare p.name is in the parent only if the parent        *)
(* declares or inherits it or it is itself such a prefixed name; no        *)
(* forwarding routine is created for parameters.                           *)
(***************************************************************************)
C17_ParameterSpecsRenamed ==
    Defined =>
        LET T == ret.val
            B == Elements(T._sub_study_specs)
        IN  /\ \A b \in B : \A p \in UnmappedParams(b) :
                   /\ Prefixed(b, p) \in ParamNames(T)
                   /\ T._param_specs[Prefixed(b, p)].default
                          = HeldDefault(args, T, Prefixed(b, p))
                   /\ T._param_specs[Prefixed(b, p)].name = Prefixed(b, p)
                   /\ p \in ParamNames(T) =>
                          \/ p \in DOMAIN OwnParams(args)
                          \/ \E c \in B : Produces(c, p)
            /\ \A n \in ParamNames(T) :
                   \/ /\ n \in DOMAIN OwnParams(args)
                      /\ T._param_specs[n] = OwnParams(args)[n]
                   \/ \E c \in B : Produces(c, n)
            /\ NoParameterRoutines(args, T)

\* The class body declares "a_p" with its own default and binds a child
\* under "a" whose parameter "p" is not explicitly mapped: the parent keeps
\* its own default.
C17_Witness ==
    /\ Defined
    /\ "a_p" \in DOMAIN OwnParams(args)
    /\ \E b \in Elements(ret.val._sub_study_specs) :
           /\ b.name = "a"
           /\ "p" \in UnmappedParams(b)
           /\ ret.val._param_specs["a_p"].default
                  # b.study_class._param_specs["p"].default

(***************************************************************************)
(* Parameter values of instances.                                          *)
(***************************************************************************)
\* The value an instance holds for one of its parameters: the one supplied
\* at construction, else the default of the class.
ValueOf(inst, n) ==
    IF n \in DOMAIN inst._parameters THEN inst._parameters[n]
    ELSE inst.cls._param_specs[n].default

\* The name under which a binding exposes the child's spec n in the parent.
Exposed(b, n) ==
    IF n \in ExplicitKeys(b) THEN b._name_map[n] ELSE Prefixed(b, n)

\* A child receives every parameter from the parent, under the mapped
\* name; and so do the children of the children.
RECURSIVE ParametersPassedDown(_)
ParametersPassedDown(inst) ==
    \A b \in Elements(inst.cls._sub_study_specs) :
        /\ b.name \in DOMAIN inst._sub_studies
        /\ LET child == inst._sub_studies[b.name]
           IN  /\ DOMAIN child._parameters = ParamNames(b.study_class)
               /\ \A n \in ParamNames(b.study_class) :
                      /\ Exposed(b, n) \in ParamNames(inst.cls)
                      /\ child._parameters[n] = ValueOf(inst, Exposed(b, n))
               /\ ParametersPassedDown(child)

\* Where the parent level does not override it, an unmapped parameter of a
\* child has the child's own default: no value is supplied to the parent
\* under the prefixed name.  own is the set of parameter names that the
\* class of the parent declares itself.
RECURSIVE OwnDefaultsKept(_, _)
OwnDefaultsKept(inst, own) ==
    \A b \in Elements(inst.cls._sub_study_specs) :
        LET child == inst._sub_studies[b.name]
        IN  /\ \A n \in UnmappedParams(b) :
                   (/\ Prefixed(b, n) \notin DOMAIN inst._parameters
                    /\ Prefixed(b, n) \notin own)
                       => child._parameters[n]
                              = b.study_class._param_specs[n].default
            /\ OwnDefaultsKept(child, {})

(***************************************************************************)
(* C18: when a composite instance is constructed, each child instance      *)
(* receives for every parameter n of its class the parent's value of the   *)
(* parameter map(n); for an unmapped n that is the child's own default     *)
(* unless it is overridden at the parent level (by a value supplied to the *)
(* parent or by the parent class declaring child_name + "_" + n itself);   *)
(* the same holds for the children of children.                            *)
(***************************************************************************)
C18_ChildParameters ==
    op = "MultiStudy.__init__" /\ ret.exc = "none" =>
        /\ ParametersPassedDown(ret.val)
        /\ OwnDefaultsKept(ret.val, DOMAIN OwnParams(heap.stmt))

(***************************************************************************)
(* Nesting: a binding c of a composite to a composite C, a binding g of C  *)
(* to G, and the specs of G that neither level maps explicitly.            *)
(***************************************************************************)
Nestings(P) ==
    {<<c, g>> : c \in {b \in Elements(P._sub_study_specs) :
                          b.study_class.multi},
                g \in UNION {Elements(b.study_class._sub_study_specs) :
                                b \in Elements(P._sub_study_specs)}}

UnmappedAtBothLevels(c, g) ==
    {n \in SpecNames(g.study_class) :
        /\ g \in Elements(c.study_class._sub_study_specs)
        /\ n \notin ExplicitKeys(g)
        /\ Prefixed(g, n) \notin ExplicitKeys(c)}

(***************************************************************************)
(* C19: for a composite P with a binding c to a composite C that has a     *)
(* binding g to G, every spec n of G that is unmapped at both levels is in *)
(* P's merged spec set as c + "_" + g + "_" + n; an instance of P owns an  *)
(* instance of C that owns an instance of G; and when n is derived,        *)
(* calling the routine that P's spec of that name is derived by (unless    *)
(* the class body of P defines it itself) reaches the derivation routine   *)
(* of G's instance by way of C's instance.                                 *)
(***************************************************************************)
C19_NestedComposition ==
    /\ Defined =>
           \A cg \in Nestings(ret.val) :
               \A n \in UnmappedAtBothLevels(cg[1], cg[2]) :
                   Prefixed(cg[1], Prefixed(cg[2], n)) \in SpecNames(ret.val)
    /\ op = "MultiStudy.__init__" /\ ret.exc = "none" =>
           \A cg \in Nestings(ret.val.cls) :
               cg[2] \in Elements(cg[1].study_class._sub_study_specs) =>
                   /\ cg[1].name \in DOMAIN ret.val._sub_studies
                   /\ LET C == ret.val._sub_studies[cg[1].name]
                      IN  /\ C.cls = cg[1].study_class
                          /\ cg[2].name \in DOMAIN C._sub_studies
                          /\ C._sub_studies[cg[2].name].cls
                                 = cg[2].study_class
    /\ op = "getattr" =>
           LET P == args.self
           IN  \A cg \in Nestings(P.cls) :
                   \A n \in UnmappedAtBothLevels(cg[1], cg[2])
                                \cap DataNames(cg[2].study_class) :
                       LET s == cg[2].study_class._data_specs[n]
                           name == Prefixed(cg[1], Prefixed(cg[2], n))
                       IN  (/\ s.derived
                            /\ args.getter
                                   = P.cls._data_specs[name].pipeline_getter
                            /\ args.getter \notin
                                   DOMAIN dct_get(heap.stmt.dct, "methods",
                                                  <<>>))
                           => /\ ret.exc = "none"
                              /\ ret.val.routine = s.pipeline_getter
                              /\ ret.val.self =
                                     P.name \o "_" \o cg[1].name
                                            \o "_" \o cg[2].name
                              /\ ret.val.kwargs.study =
                                     P.name \o "_" \o cg[1].name
                              /\ ret.val.kwargs.name_maps.study = P.name

(***************************************************************************)
(* C20: the registry of a study type: a local declaration overrides an     *)
(* inherited spec of the same name; of two inherited specs of one name the *)
(* one of the closest ancestor stays, without error; construction fails    *)
(* exactly when two local declarations share a name.                       *)
(***************************************************************************)
C20_RegistryConstruction ==
    op = "set_specs" =>
        LET local == args.comps
            inherit_from == IF "inherit_from" \in DOMAIN args.kwargs
                            THEN args.kwargs.inherit_from ELSE <<>>
            names == {s.name : s \in Elements(local) \cup Elements(inherit_from)}
            closest(n) == inherit_from[
                              CHOOSE i \in 1..Len(inherit_from) :
                                  /\ inherit_from[i].name = n
                                  /\ \A j \in 1..(i - 1) :
                                         inherit_from[j].name # n]
        IN  /\ ret.exc # "none" <=> duplicate_names(local)
            /\ ret.exc = "none" =>
                   /\ DOMAIN ret.val = names
                   /\ \A n \in names :
                          IF \E s \in Elements(local) : s.name = n
                          THEN ret.val[n] \in Elements(local)
                          ELSE ret.val[n] = closest(n)

(***************************************************************************)
(* C21: once a composite type has been defined, its bindings, their        *)
(* explicit maps and its merged spec set never change: constructing an     *)
(* instance and calling a routine leave the class as it was defined, and   *)
(* an assignment in the dictionary that was passed as a binding's name_map *)
(* is rejected and leaves every binding's explicit map as it was.          *)
(***************************************************************************)
ClassOf(stmt) == MultiStudyMetaClass__new__(stmt.name, stmt.bases, stmt.dct).val

C21_FinalizedImmutable ==
    /\ (op = "MultiStudy.__init__" /\ ret.exc = "none") =>
           ret.val.cls = ClassOf(heap.stmt)
    /\ op = "getattr" => args.self.cls = ClassOf(heap.stmt)
    /\ op = "dict.__setitem__" =>
           /\ ret.exc # "none"
           /\ \A i \in 1..Len(heap.cls._sub_study_specs) :
                  ret.val._sub_study_specs[i]._name_map
                      = heap.cls._sub_study_specs[i]._name_map

(***************************************************************************)
(* Claims about Study instances.  The names of the inputs handed to the    *)
(* constructor, and those among them that name no data spec of the class.  *)
(***************************************************************************)
SuppliedNames(inputs) == {inputs[i].name : i \in 1..Len(inputs)}

UnknownNames(cls, inputs) == SuppliedNames(inputs) \ DOMAIN cls._data_specs

\* The last input of the list that carries the name.
LastNamed(inputs, n) ==
    inputs[CHOOSE i \in 1..Len(inputs) :
               /\ inputs[i].name = n
               /\ \A j \in (i + 1)..Len(inputs) : inputs[j].name # n]

C23_DatasetLookup ==
    op = "Study.dataset" =>
        LET self == args.self
            name == args.name
            specs == self.cls._data_specs
            supplied == name \in DOMAIN self._inputs
            declared == name \in DOMAIN specs
        IN  /\ supplied =>
                   ret.exc = "none" /\ ret.val = self._inputs[name]
            /\ (~supplied /\ declared /\ specs[name].derived) =>
                   /\ ret.exc = "none"
                   /\ ret.val = [specs[name] EXCEPT
                                    !.name = self.name \o "_" \o name]
            /\ ret.exc = "NiAnalysisMissingDatasetError"
                   <=> (~supplied /\ declared /\ ~specs[name].derived)
            /\ ret.exc = "NiAnalysisNameError"
                   <=> (~supplied /\ ~declared)

\* An input was given for a derived spec and is what the lookup returns.
C23_Witness ==
    /\ op = "Study.dataset"
    /\ args.name \in DOMAIN args.self._inputs
    /\ args.self.cls._data_specs[args.name].derived
    /\ ret = Return(args.self._inputs[args.name])

(***************************************************************************)
(* The effective name map of a binding: its explicit entries, and for each *)
(* data spec of the child class that is no key of them the name under the  *)
(* binding's prefix.  The binding of a class under a name, if any.         *)
(***************************************************************************)
EffectiveMap(b) ==
    [n \in ExplicitKeys(b) \cup DataNames(b.study_class) |->
        IF n \in ExplicitKeys(b) THEN b._name_map[n] ELSE Prefixed(b, n)]

BindingsNamed(cls, c) ==
    {cls._sub_study_specs[i] : i \in
        {j \in 1..Len(cls._sub_study_specs) :
            cls._sub_study_specs[j].name = c}}

\* What the call of the routine named g on the instance amounts to, when
\* forwarding routines pass their call on as the claim says.
RECURSIVE Delegated(_, _, _)
Delegated(inst, g, kwargs) ==
    IF g \notin DOMAIN inst.cls.attrs THEN Raise("AttributeError", g)
    ELSE LET routine == inst.cls.attrs[g]
             c == routine.sub_study_name
         IN  IF c = ""
             THEN Return([routine |-> g, self |-> inst.name,
                          kwargs |-> kwargs])
             ELSE IF BindingsNamed(inst.cls, c) = {}
                         \/ c \notin DOMAIN inst._sub_studies
                  THEN Raise("ArcanaNameError", c)
                  ELSE LET b == CHOOSE x \in BindingsNamed(inst.cls, c) : TRUE
                       IN  Delegated(inst._sub_studies[c],
                                     routine.pipeline_getter,
                                     [prefix |-> c \o "_",
                                      input_map |-> EffectiveMap(b),
                                      output_map |-> EffectiveMap(b),
                                      study |-> inst.name,
                                      name_maps |-> kwargs])

OwnClass(stmt) == StudyMetaClass(stmt.name, stmt.bases, stmt.dct).val

Copy(b, s) ==
    [s EXCEPT !.name = Prefixed(b, s.name),
              !.pipeline_getter =
                  IF s.derived THEN Prefixed(b, s.pipeline_getter) ELSE @]

\* The derived data specs of a binding's child that the merge added to the
\* class: not explicitly mapped, their prefixed name not held before, and
\* their copy found under that name.
AddedDerived(stmt, cls, b) ==
    {s \in data_specs(b.study_class) :
        /\ s.derived
        /\ s.name \notin ExplicitKeys(b)
        /\ Prefixed(b, s.name) \notin DataNames(OwnClass(stmt))
        /\ cls._data_specs[Prefixed(b, s.name)] = Copy(b, s)}

(***************************************************************************)
(* C25: the merge never overwrites what the composite type already has: a  *)
(* data or parameter spec it holds under some name is left as it is, also  *)
(* when that name is child_name + "_" + n for a spec n of a child (no copy *)
(* of n replaces it); a routine it has under some name is left in place,   *)
(* also when that name is child_name + "_" + getter, and a copy that was   *)
(* added refers to it; and every routine the merge installs is the         *)
(* forwarding routine of a derived child data spec that was added.         *)
(***************************************************************************)
C25_MergeNeverOverwrites ==
    Defined =>
        LET own == OwnClass(args)
            cls == ret.val
            bindings == Elements(cls._sub_study_specs)
        IN  /\ \A n \in DataNames(own) :
                   cls._data_specs[n] = own._data_specs[n]
            /\ \A n \in ParamNames(own) :
                   cls._param_specs[n] = own._param_specs[n]
            /\ \A r \in DOMAIN own.attrs : cls.attrs[r] = own.attrs[r]
            /\ \A b \in bindings : \A s \in AddedDerived(args, cls, b) :
                   /\ Prefixed(b, s.pipeline_getter) \in DOMAIN cls.attrs
                   /\ cls._data_specs[Prefixed(b, s.name)].pipeline_getter
                          = Prefixed(b, s.pipeline_getter)
            /\ \A r \in DOMAIN cls.attrs \ DOMAIN own.attrs :
                   \E b \in bindings : \E s \in AddedDerived(args, cls, b) :
                       /\ r = Prefixed(b, s.pipeline_getter)
                       /\ cls.attrs[r].auto_added
                       /\ cls.attrs[r].sub_study_name = b.name
                       /\ cls.attrs[r].pipeline_getter = s.pipeline_getter

\* The class declares a data spec, a parameter and a routine under names
\* that the merge of a binding produces, and another spec of that binding
\* is added and refers to the routine of the class.
C25_Witness ==
    /\ Defined
    /\ \E b \in Elements(ret.val._sub_study_specs) :
           /\ \E n \in DataNames(b.study_class) \ ExplicitKeys(b) :
                  /\ Prefixed(b, n) \in DataNames(OwnClass(args))
                  /\ ret.val._data_specs[Prefixed(b, n)]
                         # Copy(b, b.study_class._data_specs[n])
           /\ \E s \in AddedDerived(args, ret.val, b) :
                  Prefixed(b, s.pipeline_getter) \in DOMAIN OwnClass(args).attrs

(***************************************************************************)
(* The bindings a class statement names: those of its composite bases and  *)
(* those it declares locally.                                              *)
(***************************************************************************)
BaseBindings(base) ==
    IF base.multi THEN Elements(base._sub_study_specs) ELSE {}

BindingNames(bs) == {b.name : b \in bs}

\* The position of the first base that has a binding of the name.
FirstBaseWith(bases, c) ==
    CHOOSE i \in 1..Len(bases) :
        /\ c \in BindingNames(BaseBindings(bases[i]))
        /\ \A j \in 1..(i - 1) : c \notin BindingNames(BaseBindings(bases[j]))

(***************************************************************************)
(* C26: the bindings of a composite type are those of its bases, applied   *)
(* in reverse order of the bases list, and then the locally declared ones, *)
(* a later application replacing an earlier binding of the same name: the  *)
(* type has exactly one binding for every name bound locally or in a base, *)
(* which is the local one (the last of that name) when there is one, and   *)
(* otherwise the one of the first base in the list that binds the name.    *)
(***************************************************************************)
C26_BindingsGathered ==
    Defined =>
        LET bases == args.bases
            local == Declared(args)
            gathered == ret.val._sub_study_specs
            inherited_names ==
                UNION {BindingNames(BaseBindings(bases[i])) :
                          i \in 1..Len(bases)}
        IN  /\ BindingNames(Elements(gathered))
                   = BindingNames(Elements(local)) \cup inherited_names
            /\ \A i, j \in 1..Len(gathered) :
                   gathered[i].name = gathered[j].name => i = j
            /\ \A b \in Elements(gathered) :
                   IF b.name \in BindingNames(Elements(local))
                   THEN \E i \in 1..Len(local) :
                            /\ b = local[i]
                            /\ \A j \in (i + 1)..Len(local) :
                                   local[j].name # b.name
                   ELSE b \in BaseBindings(bases[FirstBaseWith(bases, b.name)])

\* Two bases bind one name to different classes, one of them binds a name
\* that is also bound locally, and a third name is bound only locally or
\* only in a base.
C26_Witness ==
    /\ Defined
    /\ Len(args.bases) = 2
    /\ \E b1 \in BaseBindings(args.bases[1]),
          b2 \in BaseBindings(args.bases[2]) :
           /\ b1.name = b2.name
           /\ b1 # b2
           /\ b1 \in Elements(ret.val._sub_study_specs)
    /\ \E b \in Elements(Declared(args)) :
           /\ b.name \in BindingNames(BaseBindings(args.bases[1])
                                          \cup BaseBindings(args.bases[2]))
           /\ b \notin BaseBindings(args.bases[1])
                           \cup BaseBindings(args.bases[2])
           /\ b \in Elements(ret.val._sub_study_specs)
    /\ Len(ret.val._sub_study_specs) = 2

(***************************************************************************)
(* The name a binding gives to a spec of its child in the parent, and the  *)
(* child instances of a constructed composite.                             *)
(***************************************************************************)
ParentName(b, n) ==
    IF n \in ExplicitKeys(b) THEN b._name_map[n] ELSE Prefixed(b, n)

OneChildPerBinding(inst) ==
    /\ DOMAIN inst._sub_studies
           = BindingNames(Elements(inst.cls._sub_study_specs))
    /\ \A b \in Elements(inst.cls._sub_study_specs) :
           /\ inst._sub_studies[b.name].cls = b.study_class
           /\ inst._sub_studies[b.name].name = inst.name \o "_" \o b.name

(***************************************************************************)
(* C27 as stated: a constructed composite has one child instance per       *)
(* binding, and the inputs of each child are only acquired specs of the    *)
(* child class, under their local names, each taken from the input the     *)
(* parent was given under the mapped name; no derived spec of the child is *)
(* among them.                                                             *)
(***************************************************************************)
C27_ChildInputsAcquiredOnly ==
    (op = "MultiStudy.__init__" /\ ret.exc = "none") =>
        /\ OneChildPerBinding(ret.val)
        /\ \A b \in Elements(ret.val.cls._sub_study_specs) :
               LET child == ret.val._sub_studies[b.name]
               IN  \A n \in DOMAIN child._inputs :
                       /\ n \in DataNames(b.study_class)
                       /\ ~b.study_class._data_specs[n].derived
                       /\ ParentName(b, n) \in DOMAIN ret.val._inputs
                       /\ child._inputs[n] = ret.val._inputs[ParentName(b, n)]

(***************************************************************************)
(* C27, amended: a constructed composite has one child instance per        *)
(* binding, and the inputs of each child are keyed by data spec names of   *)
(* the child class, acquired or derived: under n the child holds the input *)
(* the parent was given under the mapped name of n, or else the parent's   *)
(* own spec of that name when that spec is derived, and otherwise nothing. *)
(***************************************************************************)
C27_ChildInputsMapped ==
    (op = "MultiStudy.__init__" /\ ret.exc = "none") =>
        /\ OneChildPerBinding(ret.val)
        /\ \A b \in Elements(ret.val.cls._sub_study_specs) :
               LET child == ret.val._sub_studies[b.name]
                   parent == ret.val
                   given(n) == ParentName(b, n) \in DOMAIN parent._inputs
                   derived_above(n) ==
                       /\ ParentName(b, n) \in DataNames(parent.cls)
                       /\ parent.cls._data_specs[ParentName(b, n)].derived
               IN  /\ DOMAIN child._inputs
                          = {n \in DataNames(b.study_class) :
                                given(n) \/ derived_above(n)}
                   /\ \A n \in DOMAIN child._inputs :
                          child._inputs[n] =
                              IF given(n)
                              THEN parent._inputs[ParentName(b, n)]
                              ELSE parent.cls._data_specs[ParentName(b, n)]

\* A child is handed an input of the parent under an explicitly mapped
\* name and the parent's derived spec under one of its own derived names.
C27_Witness ==
    /\ op = "MultiStudy.__init__"
    /\ ret.exc = "none"
    /\ \E b \in Elements(ret.val.cls._sub_study_specs) :
           LET child == ret.val._sub_studies[b.name]
           IN  \E n, k \in DOMAIN child._inputs :
                   /\ n \in ExplicitKeys(b)
                   /\ b._name_map[n] \in DOMAIN ret.val._inputs
                   /\ child._inputs[n] = ret.val._inputs[b._name_map[n]]
                   /\ b.study_class._data_specs[k].derived
                   /\ child._inputs[k] = ret.val.cls._data_specs[Prefixed(b, k)]

(***************************************************************************)
(* C28: soundness of best_requirement.  Whenever it returns (name,         *)
(* version), name is the lower-cased name of one of the alternatives, the  *)
(* version is the active version of that dependency or a member of         *)
(* available[name], and it parses to a tuple in the range of that          *)
(* alternative (not below its min and, if a max is set, not above it).     *)
(***************************************************************************)
C28_ResolutionSound ==
    (op = "best_requirement" /\ ret.exc = "none") =>
        \E i \in 1..Len(Alternatives) :
            LET r == Alternatives[i]
                parsed == split_version(r, ret.val.version)
            IN  /\ ret.val.name = r.name
                /\ r.name \in StoredNames
                /\ \/ HasActive(r) /\ ret.val.version = Active[r.name]
                   \/ /\ r.name \in DOMAIN Available
                      /\ \E k \in 1..Len(Available[r.name]) :
                             ret.val.version = Available[r.name][k]
                /\ parsed.exc = "none"
                /\ Compatible(r, parsed.val)

\* The first alternative finds nothing: what is available of it is below
\* its min, unparseable or above its max.  The version returned is the one
\* available of the second alternative, which has a max as well.
C28_Witness ==
    /\ op = "best_requirement"
    /\ ret.exc = "none"
    /\ Len(Alternatives) = 2
    /\ Alternatives[1].name # Alternatives[2].name
    /\ Alternatives[1].max_ver # None
    /\ Alternatives[2].max_ver # None
    /\ ~HasActive(Alternatives[1])
    /\ ~HasActive(Alternatives[2])
    /\ Available[Alternatives[1].name] = <<V0_9, Vabc, V2_1>>
    /\ ret.val = [name |-> Alternatives[2].name, version |-> V1_5]

(***************************************************************************)
(* C29: in every composite type that was defined, every derived data spec  *)
(* the merge added under a prefixed name has the entry point child_name +  *)
(* "_" + (the entry point of the child's spec), and the type has a routine *)
(* of exactly that name; specs of one child with one entry point are       *)
(* copied to specs with one entry point, whose routine, when the merge     *)
(* installed it, is one forwarding routine.                                *)
(***************************************************************************)
C29_EntryPointsExist ==
    Defined =>
        LET own == OwnClass(args)
            cls == ret.val
            bindings == Elements(cls._sub_study_specs)
        IN  /\ \A n \in DataNames(cls) \ DataNames(own) :
                   cls._data_specs[n].derived =>
                       /\ cls._data_specs[n].pipeline_getter
                              \in DOMAIN cls.attrs
                       /\ \E b \in bindings :
                              \E s \in AddedDerived(args, cls, b) :
                                  /\ n = Prefixed(b, s.name)
                                  /\ cls._data_specs[n].pipeline_getter
                                         = Prefixed(b, s.pipeline_getter)
            /\ \A b \in bindings : \A s, t \in AddedDerived(args, cls, b) :
                   s.pipeline_getter = t.pipeline_getter =>
                       LET r == cls._data_specs[Prefixed(b, s.name)]
                                    .pipeline_getter
                       IN  /\ cls._data_specs[Prefixed(b, t.name)]
                                  .pipeline_getter = r
                           /\ r \in DOMAIN cls.attrs
                           /\ r \notin DOMAIN own.attrs =>
                                  /\ cls.attrs[r].auto_added
                                  /\ cls.attrs[r].sub_study_name # ""

\* Two derived specs of one child that share an entry point were added and
\* share the routine the merge installed for that binding.
C29_Witness ==
    /\ Defined
    /\ \E b \in Elements(ret.val._sub_study_specs) :
           \E s, t \in AddedDerived(args, ret.val, b) :
               /\ s # t
               /\ s.pipeline_getter = t.pipeline_getter
               /\ Prefixed(b, s.pipeline_getter)
                      \notin DOMAIN OwnClass(args).attrs
               /\ ret.val.attrs[Prefixed(b, s.pipeline_getter)]
                      = [auto_added |-> TRUE, sub_study_name |-> b.name,
                         pipeline_getter |-> s.pipeline_getter]

(***************************************************************************)
(* Claims about RequirementManager.  The calls of load and unload that     *)
(* satisfiable has made on its requirements.                               *)
(***************************************************************************)
LoadCall == [method |-> "load", requirements |-> args.requirements]

UnloadCall == [method |-> "unload", requirements |-> args.requirements]

(***************************************************************************)
(* C30: satisfiable calls load on the requirements first and then tests    *)
(* the satisfied flag of each, and on every path the load is followed by   *)
(* the matching unload: when satisfiable is left, by its return or by the  *)
(* not-satisfied error, load and then unload have been called.             *)
(***************************************************************************)
C30_LoadThenUnload ==
    op = "satisfiable" =>
        /\ heap.pc \in {"test", "unload"} => heap.calls = <<LoadCall>>
        /\ heap.pc = "left" => heap.calls = <<LoadCall, UnloadCall>>

====
